---- MODULE Spec2Model ----
(***************************************************************************)
(* css-sync: a bridge that writes CSS edits made in the browser's style    *)
(* inspector back into the authored source files.                          *)
(*                                                                         *)
(* The module models the change-propagation pipeline as state machines:   *)
(*   SpecQueue  - FileQueue (patcher/file-queue.js)                        *)
(*   SpecGuard  - LoopGuard (safety/loop-guard.js)                         *)
(*   SpecDiff   - findChangedDeclarations (diff/css-parser.js)             *)
(*   SpecAgent  - CSSyncAgent (agent.js) with registry, queue and guard    *)
(*   SpecEvents - the styleSheetAdded / styleSheetChanged handlers         *)
(*   SpecPatch  - CSSPatcher / SCSSPatcher patchMultiple                   *)
(*   SpecWrite  - writeFile of the patchers and the patch task around it   *)
(*   SpecCycle  - one handleStyleSheetChange call, differ to registry      *)
(*   SpecTarget - the choice of the file handleStyleSheetChange patches    *)
(*   SpecRegistry - StyleSheetRegistry under any sequence of its calls     *)
(*   SpecHistory - SpecAgent on a page that never returns to an old text   *)
(*   SpecVanish - SpecHistory on a page that can drop a stylesheet         *)
(*   SpecStop   - the agent with a shutdown signal (stop, process.exit)    *)
(*   SpecResolve - URLResolver.resolve on any URL                          *)
(*   SpecConnect - CDPClient.connect and the callbacks registered with it  *)
(*   SpecStart  - CSSyncAgent.start(), from the handlers to startPolling   *)
(*   SpecFresh  - CDPClient.getAllFreshStyleSheets and its own session     *)
(*   SpecExpiry - the loop guard, each call recorded with the map before   *)
(*   SpecModule - handleStyleSheetChange through handleCSSModuleChanges    *)
(*   SpecNest   - findChangedDeclarations on texts with nested rules        *)
(*   SpecShared - patch tasks of several handler calls on shared files     *)
(***************************************************************************)
EXTENDS Integers, Sequences, FiniteSets, TLC

VARIABLES
  queues,        \* FileQueue.queues: path -> id of the chained task, 0 = no entry
  tasks,         \* every enqueue call so far, in submission order
  recentWrites,  \* LoopGuard.recentWrites: key -> {hash, timestamp}
  now,           \* Date.now(), in ms
  guardRet,      \* the last LoopGuard call and what it returned
  oldCss,        \* findChangedDeclarations: its oldCss argument
  newCss,        \* findChangedDeclarations: its newCss argument
  changes,       \* findChangedDeclarations: the list it returned
  diffPc,        \* "ready", "diffed" (oldCss against newCss), "self" (oldCss against itself)
  sheets,        \* StyleSheetRegistry.sheets, its entries in insertion order
  loading,       \* ids whose styleSheetAdded handler awaits the first text
  browser,       \* the page: id -> the live text of the stylesheet
  edits,         \* how many edits the page has seen
  polling,       \* "off", "on" (pollingInterval set), "cleared" (by stop), "exited"
  cycles,        \* the calls of the poll callback that are in flight, oldest first
  pollLog,       \* id -> what the poll callback did with the sheet in the step just taken
  lastAccepted,  \* id -> the newText of the latest handleStyleSheetChange call
  patched,       \* the patches that succeeded: id, text, time
  lastEvent,     \* the last styleSheetChanged event handled
  disk,          \* the files the patchers work on: path -> content
  temps,         \* the temporary files of writeFile: name -> content
  writers,       \* the patchMultiple calls that are writing, each with its position
  patchRes,      \* the last call of the operation under study and what it returned
  boot,          \* CSSyncAgent.start(): where it is, and the steps it has taken
  cdp,           \* CDPClient: the main session, its callbacks and enabled domains
  fresh          \* the getAllFreshStyleSheets call and its transient session

queueVars == <<queues, tasks>>
guardVars == <<recentWrites, now, guardRet>>
diffVars == <<oldCss, newCss, changes, diffPc>>
agentVars ==
  <<sheets, loading, browser, edits, polling, cycles, pollLog, lastAccepted,
    patched, lastEvent>>
patchVars == <<disk, temps, writers, patchRes>>
clientVars == <<boot, cdp, fresh>>
agentRest ==
  <<loading, browser, edits, polling, cycles, pollLog, lastAccepted, patched, lastEvent>>
vars ==
  <<queues, tasks, recentWrites, now, guardRet, oldCss, newCss, changes, diffPc,
    sheets, loading, browser, edits, polling, cycles, pollLog, lastAccepted,
    patched, lastEvent, disk, temps, writers, patchRes, boot, cdp, fresh>>

\* ------------------------------------------------------------------ bounds

MaxTasks == 4

\* declarations in the two texts of a diff, together
MaxDecls == 3

\* ------------------------------------------------------------ file queue

Paths == {"/app/a.css", "/app/b.scss"}

NoTask == 0

TaskIds == 1..Len(tasks)

Settled(t) == tasks[t].st \in {"fulfilled", "rejected"}

Started(t) == tasks[t].st # "waiting"

\* queues.get(filePath) || Promise.resolve()
previousTask(path) == queues[path]

\* The promise previousTask.catch(() => {}) : settled once previousTask is,
\* and always fulfilled.
MutCaughtSettled(prev) == IF prev = NoTask THEN TRUE ELSE tasks[prev].st = "fulfilled"

CaughtSettled(prev) == IF prev = NoTask THEN TRUE ELSE Settled(prev)

\* .then(() => task()) runs task once the promise before it is fulfilled
MutThenReady(t) == TRUE

ThenReady(t) == CaughtSettled(tasks[t].prev)

\* enqueue(filePath, task), up to its await: chains the task and stores the
\* chained promise as the path's entry
Enqueue(path, body) ==
  /\ Len(tasks) < MaxTasks
  /\ tasks' = Append(tasks, [path |-> path, prev |-> previousTask(path),
                             st |-> "waiting", returned |-> FALSE, body |-> body])
  /\ queues' = [queues EXCEPT ![path] = Len(tasks) + 1]

\* the chained callback fires: task() is called
StartTask(t) ==
  /\ tasks[t].st = "waiting"
  /\ ThenReady(t)
  /\ tasks' = [tasks EXCEPT ![t].st = "running"]

\* the promise task() returned settles, and with it currentTask
SettleTask(t, outcome) ==
  /\ tasks[t].st = "running"
  /\ tasks' = [tasks EXCEPT ![t].st = outcome]

\* the finally block of enqueue
MutQueuesAfterFinally(t) == [queues EXCEPT ![tasks[t].path] = NoTask]

\* a finally block that leaves the entry
MutFinallyKeeps(t) == queues

QueuesAfterFinally(t) ==
  IF queues[tasks[t].path] = t
    THEN [queues EXCEPT ![tasks[t].path] = NoTask]
    ELSE queues

\* enqueue resumes after its await: finally, then return or rethrow
EnqueueReturn(t) ==
  /\ Settled(t)
  /\ ~tasks[t].returned
  /\ tasks' = [tasks EXCEPT ![t].returned = TRUE]
  /\ queues' = QueuesAfterFinally(t)

\* ------------------------------------------------------------- CSS texts

\* A declaration as postcss reports it: the selector of the rule that holds
\* it, its property, its value and its !important flag.
Decl(sel, prop, value, imp) ==
  [selector |-> sel, prop |-> prop, value |-> value, important |-> imp]

\* A stylesheet text: whether postcss.parse accepts it, the declarations it
\* holds in document order, and the white space that follows them.
Text(decls, pad) == [ok |-> TRUE, decls |-> decls, pad |-> pad]

\* A text on which postcss.parse throws a CssSyntaxError
BadText == [ok |-> FALSE, decls |-> <<>>, pad |-> 0]

BtnRed == Text(<<Decl(".btn", "color", "red", FALSE)>>, 0)

BtnBlue == Text(<<Decl(".btn", "color", "blue", FALSE)>>, 0)

\* ------------------------------------------------------ declaration differ

\* parseDeclarations(cssText): the declarations with their start positions
\* (here the place in document order); [] when postcss.parse throws
parseDeclarations(cssText) ==
  IF ~cssText.ok THEN <<>>
  ELSE [i \in 1..Len(cssText.decls) |->
          [selector |-> cssText.decls[i].selector,
           prop |-> cssText.decls[i].prop,
           value |-> cssText.decls[i].value,
           important |-> cssText.decls[i].important,
           start |-> i]]

\* const key = `${decl.selector}|${decl.prop}`
DeclKey(decl) == decl.selector \o "|" \o decl.prop

\* The Map key -> list of declarations, as the sequence of its entries in
\* insertion order
RECURSIVE DeclMap(_)
DeclMap(decls) ==
  IF decls = <<>> THEN <<>>
  ELSE LET map == DeclMap(SubSeq(decls, 1, Len(decls) - 1))
           decl == decls[Len(decls)]
           at == {j \in 1..Len(map) : map[j].key = DeclKey(decl)}
       IN IF at = {}
            THEN Append(map, [key |-> DeclKey(decl), list |-> <<decl>>])
            ELSE [j \in 1..Len(map) |->
                    IF j \in at THEN [map[j] EXCEPT !.list = Append(@, decl)]
                    ELSE map[j]]

\* declMap.get(key) || []
MapGetList(map, key) ==
  IF \E j \in 1..Len(map) : map[j].key = key
    THEN map[CHOOSE j \in 1..Len(map) : map[j].key = key].list
    ELSE <<>>

\* null
NoValue == "(null)"

\* value + (important ? ' !important' : '')
WithImportant(decl) ==
  IF decl.important THEN decl.value \o " !important" ELSE decl.value

\* the loop body over newDeclList[i]: an add, a change or nothing
MutNewListChange(newDecl, oldDeclList, i) ==
  IF i > Len(oldDeclList)
    THEN <<[type |-> "add", selector |-> newDecl.selector, prop |-> newDecl.prop,
            oldValue |-> NoValue, newValue |-> newDecl.value,
            important |-> newDecl.important, position |-> newDecl.start]>>
  ELSE IF WithImportant(oldDeclList[i]) # newDecl.value
    THEN <<[type |-> "change", selector |-> newDecl.selector, prop |-> newDecl.prop,
            oldValue |-> WithImportant(oldDeclList[i]),
            newValue |-> WithImportant(newDecl),
            important |-> newDecl.important, position |-> newDecl.start]>>
  ELSE <<>>

NewListChange(newDecl, oldDeclList, i) ==
  IF i > Len(oldDeclList)
    THEN <<[type |-> "add", selector |-> newDecl.selector, prop |-> newDecl.prop,
            oldValue |-> NoValue, newValue |-> newDecl.value,
            important |-> newDecl.important, position |-> newDecl.start]>>
  ELSE IF oldDeclList[i].value # newDecl.value
          \/ oldDeclList[i].important # newDecl.important
    THEN <<[type |-> "change", selector |-> newDecl.selector, prop |-> newDecl.prop,
            oldValue |-> WithImportant(oldDeclList[i]),
            newValue |-> WithImportant(newDecl),
            important |-> newDecl.important, position |-> newDecl.start]>>
  ELSE <<>>

\* for (let i = 0; i < newDeclList.length; i++) ...
RECURSIVE NewListChanges(_, _, _)
NewListChanges(newDeclList, oldDeclList, i) ==
  IF i > Len(newDeclList) THEN <<>>
  ELSE NewListChange(newDeclList[i], oldDeclList, i)
         \o NewListChanges(newDeclList, oldDeclList, i + 1)

\* for (const [key, newDeclList] of newDeclMap) ...
RECURSIVE ChangedValues(_, _, _)
ChangedValues(newDeclMap, oldDeclMap, j) ==
  IF j > Len(newDeclMap) THEN <<>>
  ELSE NewListChanges(newDeclMap[j].list, MapGetList(oldDeclMap, newDeclMap[j].key), 1)
         \o ChangedValues(newDeclMap, oldDeclMap, j + 1)

\* for (let i = newDeclList.length; i < oldDeclList.length; i++) ...
RECURSIVE OldListDeletes(_, _)
OldListDeletes(oldDeclList, i) ==
  IF i > Len(oldDeclList) THEN <<>>
  ELSE <<[type |-> "delete", selector |-> oldDeclList[i].selector,
          prop |-> oldDeclList[i].prop, oldValue |-> oldDeclList[i].value,
          newValue |-> NoValue, important |-> FALSE,
          position |-> oldDeclList[i].start]>>
         \o OldListDeletes(oldDeclList, i + 1)

\* for (const [key, oldDeclList] of oldDeclMap) ...
RECURSIVE Deleted(_, _, _)
Deleted(oldDeclMap, newDeclMap, j) ==
  IF j > Len(oldDeclMap) THEN <<>>
  ELSE OldListDeletes(oldDeclMap[j].list,
                      Len(MapGetList(newDeclMap, oldDeclMap[j].key)) + 1)
         \o Deleted(oldDeclMap, newDeclMap, j + 1)

findChangedDeclarations(oldText, newText) ==
  LET oldDeclMap == DeclMap(parseDeclarations(oldText))
      newDeclMap == DeclMap(parseDeclarations(newText))
  IN ChangedValues(newDeclMap, oldDeclMap, 1) \o Deleted(oldDeclMap, newDeclMap, 1)

\* ------------------------------------------------------------- loop guard

\* options.ttl || 2000
TTL == 2000

MaxTime == 4001


StyleSheetIds == {"s1", "s2"}

\* `sheet:${styleSheetId}`
SheetKey(styleSheetId) == "sheet:" \o styleSheetId


\* createHash('md5').update(content).digest('hex'): a digest that the content
\* determines; MD5 is taken to be free of collisions on the modelled texts
computeHash(content) == [md5 |-> content]

\* Map.prototype.set and Map.prototype.delete on a map held as a function
\* whose domain is the set of keys present
MapSet(map, key, value) ==
  [k \in DOMAIN map \cup {key} |-> IF k = key THEN value ELSE map[k]]

MapDelete(map, key) == [k \in DOMAIN map \ {key} |-> map[k]]

EmptyMap == [k \in {} |-> 0]

\* this.recentWrites.set(filePath, { hash, timestamp: Date.now() })
registerWrite(writes, filePath, content) ==
  MapSet(writes, filePath, [hash |-> computeHash(content), timestamp |-> now])

MutRegisterStyleSheetWrite(writes, styleSheetId, content) ==
  MapSet(writes, styleSheetId, [hash |-> computeHash(content), timestamp |-> now])

registerStyleSheetWrite(writes, styleSheetId, content) ==
  MapSet(writes, SheetKey(styleSheetId),
         [hash |-> computeHash(content), timestamp |-> now])

\* Date.now() - record.timestamp > this.ttl
MutExpired(record) == now - record.timestamp >= TTL

Expired(record) == now - record.timestamp > TTL

\* what shouldIgnore(filePath, content) returns
MutShouldIgnoreValue(writes, filePath, content) ==
  \E k \in DOMAIN writes :
    /\ ~Expired(writes[k])
    /\ writes[k].hash = computeHash(content)

shouldIgnoreValue(writes, filePath, content) ==
  IF filePath \notin DOMAIN writes THEN FALSE
  ELSE IF Expired(writes[filePath]) THEN FALSE
  ELSE writes[filePath].hash = computeHash(content)

\* recentWrites after shouldIgnore(filePath, content): an expired record of
\* the key is deleted
\* a shouldIgnore that deletes nothing
MutShouldIgnoreWrites(writes, filePath) == writes

shouldIgnoreWrites(writes, filePath) ==
  IF filePath \in DOMAIN writes /\ Expired(writes[filePath])
    THEN MapDelete(writes, filePath)
    ELSE writes

\* what shouldIgnoreStyleSheet(styleSheetId, content) returns: shouldIgnore
\* under the key sheet:<styleSheetId>
MutShouldIgnoreStyleSheetValue(writes, styleSheetId, content) ==
  shouldIgnoreValue(writes, styleSheetId, content)

shouldIgnoreStyleSheetValue(writes, styleSheetId, content) ==
  shouldIgnoreValue(writes, SheetKey(styleSheetId), content)

shouldIgnoreStyleSheetWrites(writes, styleSheetId) ==
  shouldIgnoreWrites(writes, SheetKey(styleSheetId))

\* cleanup(): the sweep that runs every ttl ms
cleanup(writes) ==
  [k \in {x \in DOMAIN writes : ~Expired(writes[x])} |-> writes[k]]

\* destroy(): recentWrites.clear()
destroy(writes) == EmptyMap

NoCall == [op |-> "none"]

\* ------------------------------------------------------- strings and paths

\* null, as a path or a URL
NoPath == ""

\* String.prototype.startsWith, and /^prefix/
StartsWith(s, prefix) ==
  Len(s) >= Len(prefix) /\ SubSeq(s, 1, Len(prefix)) = prefix

\* /suffix$/
EndsWith(s, suffix) ==
  Len(s) >= Len(suffix) /\ SubSeq(s, Len(s) - Len(suffix) + 1, Len(s)) = suffix

\* String.prototype.includes
Includes(s, part) ==
  \E i \in 1..(Len(s) - Len(part) + 1) : SubSeq(s, i, i + Len(part) - 1) = part

\* the string after its first n characters
Drop(s, n) == SubSeq(s, n + 1, Len(s))

\* options.projectRoot
ProjectRoot == "/app"

\* options.devServerBase || 'http://localhost:3000'
DevServerBase == "http://localhost:3000"

\* the files of the project that exist
Disk ==
  {"/app/src/app.css", "/app/src/Menu.module.scss",
   "/app/.next/static/css/app/layout.css"}

existsSync(path) == path \in Disk

\* the first path of the list that exists, or null
FirstExisting(paths) ==
  LET at == {i \in 1..Len(paths) : existsSync(paths[i])}
  IN IF at = {} THEN NoPath ELSE paths[CHOOSE i \in at : \A j \in at : i <= j]

\* ------------------------------------------------------------ URL resolver

\* findInProject(filename)
findInProject(filename) ==
  FirstExisting(<<ProjectRoot \o "/src/styles/" \o filename,
                  ProjectRoot \o "/src/css/" \o filename,
                  ProjectRoot \o "/styles/" \o filename,
                  ProjectRoot \o "/css/" \o filename,
                  ProjectRoot \o "/public/styles/" \o filename,
                  ProjectRoot \o "/public/css/" \o filename>>)

\* findNextJSSource(cssPath): the built file under .next first, then the
\* sources that layout.css and page.css usually come from
findNextJSSource(cssPath) ==
  LET nextBuildPath == ProjectRoot \o "/.next/static/css/" \o cssPath
      slashes == {i \in 1..Len(cssPath) : SubSeq(cssPath, i, i) = "/"}
      cut == IF slashes = {} THEN 0 ELSE CHOOSE i \in slashes : \A j \in slashes : j <= i
      filename == Drop(cssPath, cut)
      dir == IF cut = 0 THEN ProjectRoot
             ELSE ProjectRoot \o "/" \o SubSeq(cssPath, 1, cut - 1)
  IN IF existsSync(nextBuildPath) THEN nextBuildPath
     ELSE IF filename = "layout.css"
       THEN FirstExisting(<<dir \o "/globals.css", dir \o "/global.css",
                            dir \o "/globals.scss", dir \o "/global.scss",
                            ProjectRoot \o "/app/globals.css",
                            ProjectRoot \o "/app/global.scss",
                            ProjectRoot \o "/styles/globals.css",
                            ProjectRoot \o "/styles/global.scss">>)
     ELSE IF filename = "page.css"
       THEN FirstExisting(<<dir \o "/page.module.scss", dir \o "/page.module.css",
                            dir \o "/styles.module.scss", dir \o "/styles.module.css">>)
     ELSE NoPath

\* one entry of defaultMappings: the path it resolves to when the pattern
\* ^/<folder>/(.+\.css)$ matches
FolderMapping(pathname, folder, target) ==
  IF StartsWith(pathname, folder) /\ EndsWith(pathname, ".css")
       /\ Len(pathname) > Len(folder) + Len(".css")
    THEN <<ProjectRoot \o target \o Drop(pathname, Len(folder))>>
    ELSE <<>>

\* resolve(url), with no user mappings; URLs carry no base path and no query
resolve(url) ==
  IF url = NoPath THEN NoPath
  ELSE IF StartsWith(url, "file://") THEN Drop(url, Len("file://"))
  ELSE
    LET pathname == IF StartsWith(url, DevServerBase)
                      THEN Drop(url, Len(DevServerBase)) ELSE url
        next == IF StartsWith(pathname, "/_next/static/css/")
                     /\ Len(pathname) > Len("/_next/static/css/")
                  THEN <<findNextJSSource(Drop(pathname, Len("/_next/static/css/")))>>
                  ELSE <<>>
        assets == IF StartsWith(pathname, "/assets/") /\ EndsWith(pathname, ".css")
                       /\ Len(pathname) > Len("/assets/") + Len(".css")
                    THEN <<findInProject(Drop(pathname, Len("/assets/")))>>
                    ELSE <<>>
    IN FirstExisting(next
                       \o FolderMapping(pathname, "/src/", "/src/")
                       \o assets
                       \o FolderMapping(pathname, "/static/", "/static/")
                       \o FolderMapping(pathname, "/styles/", "/styles/")
                       \o FolderMapping(pathname, "/css/", "/css/")
                       \o FolderMapping(pathname, "/", "/public/")
                       \o <<ProjectRoot \o pathname,
                            ProjectRoot \o "/src" \o pathname,
                            ProjectRoot \o "/public" \o pathname>>)

\* /\.(scss|sass)$/
IsScss(path) == EndsWith(path, ".scss") \/ EndsWith(path, ".sass")

\* --------------------------------------------------- selector and source map

NoResolved == [filePath |-> NoPath, originalSelector |-> ""]

\* SelectorResolver.resolve(selector): the class .Menu_item__abc is the class
\* .item of Menu.module.scss; no other modelled selector is a module class
selectorResolve(selector) ==
  IF selector = ".Menu_item__abc" /\ existsSync("/app/src/Menu.module.scss")
    THEN [filePath |-> "/app/src/Menu.module.scss", originalSelector |-> ".item"]
    ELSE NoResolved

\* findOriginalSource(cssPath, selector, cssContent): the sources it can
\* return; no file of the project carries a source map, so it returns null
findOriginalSource(cssPath) == {NoPath}

\* ---------------------------------------------------------------- registry

\* null, as a text
NoText == [ok |-> FALSE, decls |-> <<>>, pad |-> -1]

\* text.length
RECURSIVE DeclsLength(_)
DeclsLength(decls) ==
  IF decls = <<>> THEN 0
  ELSE Len(decls[1].selector) + Len(decls[1].prop) + Len(WithImportant(decls[1]))
         + DeclsLength(Tail(decls))

TextLength(text) == DeclsLength(text.decls) + text.pad

\* a text that is neither null nor the empty string
Truthy(text) == text # NoText /\ (~text.ok \/ TextLength(text) > 0)

\* the index of the entry of styleSheetId, or 0
SheetIndex(reg, styleSheetId) ==
  IF \E i \in 1..Len(reg) : reg[i].styleSheetId = styleSheetId
    THEN CHOOSE i \in 1..Len(reg) : reg[i].styleSheetId = styleSheetId
    ELSE 0

\* null, as a time
NoTime == -1

MutRegister(reg, header) ==
  IF SheetIndex(reg, header.styleSheetId) # 0
    THEN [reg EXCEPT ![SheetIndex(reg, header.styleSheetId)] =
            [styleSheetId |-> header.styleSheetId, header |-> header,
             text |-> NoText, lastModified |-> NoTime,
             viteDevId |-> NoPath, originalSource |-> NoPath]]
  ELSE Append(reg, [styleSheetId |-> header.styleSheetId, header |-> header,
                    text |-> NoText, lastModified |-> NoTime,
                    viteDevId |-> NoPath, originalSource |-> NoPath])

register(reg, header) ==
  IF SheetIndex(reg, header.styleSheetId) # 0 THEN reg
  ELSE Append(reg, [styleSheetId |-> header.styleSheetId, header |-> header,
                    text |-> NoText, lastModified |-> NoTime,
                    viteDevId |-> NoPath, originalSource |-> NoPath])

\* an updateText that sets a record for an id that has none
MutUpdateText(reg, styleSheetId, text) ==
  IF SheetIndex(reg, styleSheetId) = 0
    THEN Append(reg, [styleSheetId |-> styleSheetId,
                      header |-> [styleSheetId |-> styleSheetId, sourceURL |-> NoPath,
                                  isInline |-> FALSE],
                      text |-> text, lastModified |-> now,
                      viteDevId |-> NoPath, originalSource |-> NoPath])
  ELSE [reg EXCEPT ![SheetIndex(reg, styleSheetId)].text = text,
                   ![SheetIndex(reg, styleSheetId)].lastModified = now]

updateText(reg, styleSheetId, text) ==
  IF SheetIndex(reg, styleSheetId) = 0 THEN reg
  ELSE [reg EXCEPT ![SheetIndex(reg, styleSheetId)].text = text,
                   ![SheetIndex(reg, styleSheetId)].lastModified = now]

\* sheet?.text || null
getPreviousText(reg, styleSheetId) ==
  IF SheetIndex(reg, styleSheetId) = 0 THEN NoText
  ELSE IF Truthy(reg[SheetIndex(reg, styleSheetId)].text)
    THEN reg[SheetIndex(reg, styleSheetId)].text
  ELSE NoText

\* sheet?.viteDevId || sheet?.header?.sourceURL || null
getSourceURL(reg, styleSheetId) ==
  IF SheetIndex(reg, styleSheetId) = 0 THEN NoPath
  ELSE IF reg[SheetIndex(reg, styleSheetId)].viteDevId # NoPath
    THEN reg[SheetIndex(reg, styleSheetId)].viteDevId
  ELSE reg[SheetIndex(reg, styleSheetId)].header.sourceURL

getViteDevId(reg, styleSheetId) ==
  IF SheetIndex(reg, styleSheetId) = 0 THEN NoPath
  ELSE reg[SheetIndex(reg, styleSheetId)].viteDevId

getOriginalSource(reg, styleSheetId) ==
  IF SheetIndex(reg, styleSheetId) = 0 THEN NoPath
  ELSE reg[SheetIndex(reg, styleSheetId)].originalSource

\* getFileBasedSheets(): copies of the entries that map to a file
getFileBasedSheets(reg) ==
  SelectSeq(reg, LAMBDA sheet :
    \/ sheet.viteDevId # NoPath
    \/ sheet.originalSource # NoPath
    \/ /\ sheet.header.sourceURL # NoPath
       /\ ~sheet.header.isInline
       /\ (StartsWith(sheet.header.sourceURL, "http")
             \/ StartsWith(sheet.header.sourceURL, "file")))

\* ------------------------------------------------------------------- page

\* the stylesheets of the page, in document order
BrowserOrder == <<"s1", "s2">>

\* the header the page reports for a stylesheet
Header(styleSheetId) ==
  [styleSheetId |-> styleSheetId,
   sourceURL |-> IF styleSheetId = "s1"
                   THEN "http://localhost:3000/src/app.css"
                   ELSE "http://localhost:3000/_next/static/css/app/layout.css",
   isInline |-> FALSE]

\* The texts of app.css: a first rule that fills the leading 100 characters,
\* then a second rule, then white space.
AppText(headValue, tailValue, pad) ==
  Text(<<Decl(".btn", "color", headValue, FALSE),
         Decl(".box", "color", tailValue, FALSE)>>, pad)

\* The texts of layout.css: a first rule that fills the leading 100
\* characters, then the rule of a CSS-module class, then a global rule.
LayoutText(moduleValue, tailValue) ==
  Text(<<Decl(".nav", "color", "red", FALSE),
         Decl(".Menu_item__abc", "color", moduleValue, FALSE),
         Decl(".hero", "color", tailValue, FALSE)>>, 0)

\* the text a stylesheet is served with
ServedText(styleSheetId) ==
  IF styleSheetId = "s1" THEN AppText("red", "red", 0) ELSE LayoutText("red", "red")

\* the texts an edit in the inspector can leave. In app.css: an edit past the
\* leading 100 characters, white space added at the end, and edits within
\* the leading 100 characters that keep or change the length. In layout.css:
\* an edit of the module class, and one of the global rule.
PageTexts(styleSheetId) ==
  IF styleSheetId = "s1"
    THEN {AppText("red", "red", 0), AppText("red", "tan", 0), AppText("red", "red", 2),
          AppText("tan", "red", 0), AppText("blue", "red", 0)}
    ELSE {LayoutText("red", "red"), LayoutText("tan", "red"), LayoutText("red", "tan")}

\* text.substring(0, 100).trim(); undefined for a null text
NoKey == [defined |-> FALSE, head |-> <<>>]

contentKey(text) ==
  IF text = NoText THEN NoKey
  ELSE [defined |-> TRUE, head |-> SubSeq(text.decls, 1, 1)]

\* getAllFreshStyleSheets(), when the session opens: the text and content key
\* of every stylesheet of the page; a stylesheet that the page has dropped
\* (its text is null here) is not among them
FreshSheets ==
  LET live == SelectSeq(BrowserOrder, LAMBDA id : browser[id] # NoText)
  IN [i \in 1..Len(live) |->
        [text |-> browser[live[i]], contentKey |-> contentKey(browser[live[i]])]]

\* Array.prototype.find: the text of the first of the entries at, or null
FirstText(freshSheets, at) ==
  IF at = {} THEN NoText
  ELSE freshSheets[CHOOSE i \in at : \A j \in at : i <= j].text

findFreshTextByContentKey(freshSheets, key) ==
  FirstText(freshSheets,
            {i \in 1..Len(freshSheets) : freshSheets[i].contentKey = key})

\* findFreshTextByContentKey(...) || freshSheets.find(f => f.text.length
\* === oldText?.length)?.text
PollNewText(freshSheets, oldText) ==
  IF Truthy(findFreshTextByContentKey(freshSheets, contentKey(oldText)))
    THEN findFreshTextByContentKey(freshSheets, contentKey(oldText))
  ELSE IF oldText = NoText THEN NoText
  ELSE FirstText(freshSheets,
                 {i \in 1..Len(freshSheets) :
                    TextLength(freshSheets[i].text) = TextLength(oldText)})


\* ------------------------------------------------------------ the patchers

\* A declaration node and a rule node of the postcss tree of a file; a rule
\* holds its own declarations and, after them, the rules nested in it.
FileDecl(prop, value, imp) == [prop |-> prop, value |-> value, important |-> imp]

Rule(selector, decls, children) ==
  [selector |-> selector, decls |-> decls, children |-> children]

\* The content of a file: the rules postcss.parse finds in it, or a content
\* on which postcss.parse throws; NoFile when existsSync(filePath) is false.
Content(rules) == [exists |-> TRUE, ok |-> TRUE, rules |-> rules]

BadContent == [exists |-> TRUE, ok |-> FALSE, rules |-> <<>>]

NoFile == [exists |-> FALSE, ok |-> FALSE, rules |-> <<>>]

\* root.walkDecls of parseDeclarations on the text of the file: every
\* declaration in document order, with the selector of the rule that holds it
RuleDecls(selector, decls) ==
  [k \in 1..Len(decls) |->
     Decl(selector, decls[k].prop, decls[k].value, decls[k].important)]

RECURSIVE ChildrenDecls(_)
ChildrenDecls(children) ==
  IF children = <<>> THEN <<>>
  ELSE RuleDecls(Head(children).selector, Head(children).decls)
         \o ChildrenDecls(Tail(children))

RECURSIVE RulesDecls(_)
RulesDecls(rules) ==
  IF rules = <<>> THEN <<>>
  ELSE RuleDecls(Head(rules).selector, Head(rules).decls)
         \o ChildrenDecls(Head(rules).children)
         \o RulesDecls(Tail(rules))

\* the stylesheet text a content is, as the differ reads it
TextOf(content) ==
  IF content.ok THEN Text(RulesDecls(content.rules), 0) ELSE BadText

\* s.replace(/\s+/g, ' ')
RECURSIVE CollapseSpaces(_)
CollapseSpaces(s) ==
  IF Len(s) < 2 THEN s
  ELSE IF SubSeq(s, 1, 2) = "  " THEN CollapseSpaces(Drop(s, 1))
  ELSE SubSeq(s, 1, 1) \o CollapseSpaces(Drop(s, 1))

\* String.prototype.trim
RECURSIVE Trim(_)
Trim(s) ==
  IF StartsWith(s, " ") THEN Trim(Drop(s, 1))
  ELSE IF EndsWith(s, " ") THEN Trim(SubSeq(s, 1, Len(s) - 1))
  ELSE s

\* matchSelector(fileSelector, targetSelector)
matchSelector(fileSelector, targetSelector) ==
  Trim(CollapseSpaces(fileSelector)) = Trim(CollapseSpaces(targetSelector))

\* child.selector.split(',').map(s => s.trim())
RECURSIVE SplitSelectors(_, _)
SplitSelectors(s, k) ==
  IF k > Len(s) THEN <<Trim(s)>>
  ELSE IF SubSeq(s, k, k) = "," THEN <<Trim(SubSeq(s, 1, k - 1))>>
                                        \o SplitSelectors(Drop(s, k), 1)
  ELSE SplitSelectors(s, k + 1)

\* the full selector of a part of a nested rule's selector
FullSelector(s, parentSelector) ==
  IF StartsWith(s, "&") THEN parentSelector \o Drop(s, 1)
  ELSE IF parentSelector # "" THEN parentSelector \o " " \o s
  ELSE s

RECURSIVE FullSelectorsOf(_, _)
FullSelectorsOf(parts, parentSelector) ==
  IF parts = <<>> THEN <<>>
  ELSE <<FullSelector(Head(parts), parentSelector)>>
         \o FullSelectorsOf(Tail(parts), parentSelector)

FullSelectors(selector, parentSelector) ==
  FullSelectorsOf(SplitSelectors(selector, 1), parentSelector)

\* the callbacks of walkRulesDeep(node, callback, parentSelector) on a list
\* of rules: the path of each rule with each of its full selectors, the
\* rule before the rules nested in it
RECURSIVE DeepVisits(_, _, _, _)
RECURSIVE DeepVisitsUnder(_, _, _)
DeepVisitsUnder(rule, path, fulls) ==
  IF fulls = <<>> THEN <<>>
  ELSE DeepVisits(rule.children, path, Head(fulls), 1)
         \o DeepVisitsUnder(rule, path, Tail(fulls))

RuleVisits(rule, path, fulls) ==
  [k \in 1..Len(fulls) |-> [path |-> path, selector |-> fulls[k]]]
    \o DeepVisitsUnder(rule, path, fulls)

DeepVisits(rules, prefix, parentSelector, i) ==
  IF i > Len(rules) THEN <<>>
  ELSE RuleVisits(rules[i], Append(prefix, i),
                  FullSelectors(rules[i].selector, parentSelector))
         \o DeepVisits(rules, prefix, parentSelector, i + 1)

\* the callbacks of root.walkRules: every rule at any depth with its own
\* selector, the rule before the rules nested in it
RECURSIVE WalkVisits(_, _, _)
WalkVisits(rules, prefix, i) ==
  IF i > Len(rules) THEN <<>>
  ELSE <<[path |-> Append(prefix, i), selector |-> rules[i].selector]>>
         \o WalkVisits(rules[i].children, Append(prefix, i), 1)
         \o WalkVisits(rules, prefix, i + 1)

\* the rules a patcher visits: SCSSPatcher with full selectors, CSSPatcher
\* with the rules' own selectors
Visits(rules, scss) ==
  IF scss THEN DeepVisits(rules, <<>>, "", 1) ELSE WalkVisits(rules, <<>>, 1)

RuleAt(rules, path) ==
  IF Len(path) = 1 THEN rules[path[1]] ELSE rules[path[1]].children[path[2]]

ReplaceAt(rules, path, rule) ==
  IF Len(path) = 1 THEN [rules EXCEPT ![path[1]] = rule]
  ELSE [rules EXCEPT ![path[1]].children[path[2]] = rule]

\* change.newValue.includes('!important')
hasImportant(newValue) == Includes(newValue, "!important")

\* change.newValue.replace(/\s*!important\s*$/, '').trim()
cleanValue(newValue) ==
  IF EndsWith(Trim(newValue), "!important")
    THEN Trim(SubSeq(Trim(newValue), 1, Len(Trim(newValue)) - 10))
    ELSE Trim(newValue)

\* rule.walkDecls(prop, ...) reaches the declarations of the rule and of the
\* rules nested in it
HasDecl(rule, prop) ==
  \/ \E k \in 1..Len(rule.decls) : rule.decls[k].prop = prop
  \/ \E j \in 1..Len(rule.children) :
       \E k \in 1..Len(rule.children[j].decls) : rule.children[j].decls[k].prop = prop

\* decl.value = cleanValue; decl.important = hasImportant
SetDecls(decls, prop, newValue) ==
  [k \in 1..Len(decls) |->
     IF decls[k].prop = prop
       THEN FileDecl(prop, cleanValue(newValue), hasImportant(newValue))
       ELSE decls[k]]

\* decl.remove()
RECURSIVE RemoveDecls(_, _)
RemoveDecls(decls, prop) ==
  IF decls = <<>> THEN <<>>
  ELSE IF Head(decls).prop = prop THEN RemoveDecls(Tail(decls), prop)
  ELSE <<Head(decls)>> \o RemoveDecls(Tail(decls), prop)

\* the matched rule after rule.walkDecls(change.prop, ...)
WalkedDecls(decls, change) ==
  IF change.type = "delete" THEN RemoveDecls(decls, change.prop)
  ELSE SetDecls(decls, change.prop, change.newValue)

WalkDecls(rule, change) ==
  Rule(rule.selector, WalkedDecls(rule.decls, change),
       [j \in 1..Len(rule.children) |->
          Rule(rule.children[j].selector,
               WalkedDecls(rule.children[j].decls, change),
               rule.children[j].children)])

\* the walk over the rules for one change: the tree, whether a declaration
\* was found, and the last rule that matched
Matched(s, path, rule, change) ==
  [rules |-> ReplaceAt(s.rules, path, WalkDecls(rule, change)),
   found |-> s.found \/ HasDecl(rule, change.prop),
   targetRule |-> path]

RECURSIVE WalkRules(_, _, _, _)
WalkRules(s, visits, change, k) ==
  IF k > Len(visits) THEN s
  ELSE IF matchSelector(visits[k].selector, change.selector)
    THEN WalkRules(Matched(s, visits[k].path, RuleAt(s.rules, visits[k].path), change),
                   visits, change, k + 1)
  ELSE WalkRules(s, visits, change, k + 1)

\* targetRule.append({prop, value, important})
AppendDecl(rules, path, change) ==
  ReplaceAt(rules, path,
            [RuleAt(rules, path) EXCEPT !.decls =
               Append(@, FileDecl(change.prop, cleanValue(change.newValue),
                                  hasImportant(change.newValue)))])

\* the body of the loop over the changes: the tree after the change, and
\* whether the change counts as a success
AfterWalk(s, change) ==
  IF s.found THEN [rules |-> s.rules, found |-> TRUE]
  ELSE IF s.targetRule # <<>> /\ change.type = "add"
          /\ change.newValue \notin {NoValue, ""}
    THEN [rules |-> AppendDecl(s.rules, s.targetRule, change), found |-> TRUE]
  ELSE [rules |-> s.rules, found |-> FALSE]

PatchChange(rules, change, scss) ==
  AfterWalk(WalkRules([rules |-> rules, found |-> FALSE, targetRule |-> <<>>],
                      Visits(rules, scss), change, 1),
            change)

\* for (const change of changes) ...
MutCounted(s, r) ==
  [rules |-> r.rules, success |-> s.success + 1, failed |-> s.failed]

\* if (found) success++; else failed++
Counted(s, r) ==
  [rules |-> r.rules,
   success |-> s.success + (IF r.found THEN 1 ELSE 0),
   failed |-> s.failed + (IF r.found THEN 0 ELSE 1)]

RECURSIVE PatchChanges(_, _, _, _)
PatchChanges(s, changeList, scss, k) ==
  IF k > Len(changeList) THEN s
  ELSE PatchChanges(Counted(s, PatchChange(s.rules, changeList[k], scss)),
                    changeList, scss, k + 1)

\* patchMultiple(filePath, changes) on a file of the given content, up to
\* the write: the counts, and the content to write when success > 0
PatchCounts(s) ==
  [success |-> s.success, failed |-> s.failed, write |-> s.success > 0,
   content |-> Content(s.rules)]

patchMultiple(content, changeList, scss) ==
  IF ~content.exists \/ ~content.ok
    THEN [success |-> 0, failed |-> Len(changeList), write |-> FALSE,
          content |-> content]
  ELSE PatchCounts(PatchChanges([rules |-> content.rules, success |-> 0, failed |-> 0],
                                changeList, scss, 1))

\* --- initial values of the files

PatchPaths == {"/app/src/app.css", "/app/src/Menu.module.scss"}

NoDisk == [p \in PatchPaths |-> NoFile]

\* ms that pass while files are written
MaxStamp == 1

\* path.dirname
RECURSIVE dirname(_)
dirname(path) ==
  IF path = "" THEN "."
  ELSE IF SubSeq(path, Len(path), Len(path)) = "/" THEN SubSeq(path, 1, Len(path) - 1)
  ELSE dirname(SubSeq(path, 1, Len(path) - 1))

\* join(dirname(filePath), `.${Date.now()}.tmp`)
tempPath(filePath, stamp) == dirname(filePath) \o "/." \o ToString(stamp) \o ".tmp"

TempPaths == {tempPath(p, t) : p \in PatchPaths, t \in 0..MaxStamp}

NoTemps == [n \in TempPaths |-> NoFile]

\* a patcher that is not in writeFile
IdleWriter == [pc |-> "idle"]

NoWriters == [p \in PatchPaths |-> IdleWriter]

\* a part of a file that was never written
Hole == Rule("", <<>>, <<>>)

\* the file after a write of one chunk (here a rule) at place k
Written(content, k, chunk) ==
  Content([i \in 1..(IF k > Len(content.rules) THEN k ELSE Len(content.rules)) |->
             IF i = k THEN chunk
             ELSE IF i <= Len(content.rules) THEN content.rules[i]
             ELSE Hole])

NoPatch == [op |-> "none"]

\* ------------------------------------------------------------- CDP client

\* start() has not been called
NoBoot == [pc |-> "new", steps |-> <<>>]

\* the CDPClient as its constructor leaves it: this.client and this.CSS are
\* null, _pendingCallbacks is empty; attached are the listeners of the
\* session's CSS domain, enabled the domains enabled so far, in order
NoClient ==
  [pc |-> "new", CSS |-> FALSE, pendingCallbacks |-> <<>>, attached |-> <<>>,
   enabled |-> <<>>]

\* getAllFreshStyleSheets has not been called. client: the local `client` is
\* not null, CDP(...) has opened the transient session; closes: the close()
\* calls on it that have settled, TRUE for one that succeeded; freshSheets:
\* the headers collected; at: the headers the loop has visited; results: the
\* entries pushed; skipped: the sheets whose fetch ended in the loop's empty
\* catch; error: the await whose error the outer catch has caught; ret: the
\* value returned once pc is "returned"
NoFresh ==
  [pc |-> "idle", client |-> FALSE, closes |-> <<>>, freshSheets |-> <<>>, at |-> 0,
   results |-> <<>>, skipped |-> <<>>, error |-> "none", ret |-> <<>>]

\* the callbacks a caller can hand to onStyleSheetAdded / onStyleSheetChanged
MaxCallbacks == 3

CallbackIds == 1..MaxCallbacks

\* the callbacks of a list of {event, callback} entries
RECURSIVE CallbacksOf(_)
CallbacksOf(entries) ==
  IF entries = <<>> THEN {} ELSE {entries[1].callback} \cup CallbacksOf(Tail(entries))

\* onStyleSheetAdded(callback) and onStyleSheetChanged(callback): with a
\* session the callback goes to the CSS domain, without one to the pending list
On(client, event, callback) ==
  IF client.CSS
    THEN [client EXCEPT !.attached = Append(@, [event |-> event, callback |-> callback])]
    ELSE [client EXCEPT
            !.pendingCallbacks = Append(@, [event |-> event, callback |-> callback])]

\* connect() is called: with a targetUrl it awaits CDP.List
ConnectCalled(client) == [client EXCEPT !.pc = "list"]

\* CDP.List has answered: with the page among the targets connect awaits
\* CDP(...); without it, or on an error, connect throws
ConnectListed(client, found) ==
  [client EXCEPT !.pc = IF found THEN "open" ELSE "failed"]

\* CDP(...) has answered. With a session: the domains are taken from it, the
\* pending callbacks go to the CSS domain in their order, the pending list is
\* emptied and DOM.enable() is called. On an error connect throws.
MutConnectOpened(client, ok) ==
  IF ~ok THEN [client EXCEPT !.pc = "failed"]
  ELSE [client EXCEPT !.pc = "DOM", !.CSS = TRUE,
                      !.attached = @ \o client.pendingCallbacks,
                      !.enabled = <<"DOM">>]

ConnectOpened(client, ok) ==
  IF ~ok THEN [client EXCEPT !.pc = "failed"]
  ELSE [client EXCEPT !.pc = "DOM", !.CSS = TRUE,
                      !.attached = @ \o client.pendingCallbacks,
                      !.pendingCallbacks = <<>>,
                      !.enabled = <<"DOM">>]

\* DOM.enable(), CSS.enable() or Page.enable() has answered: the next domain
\* is enabled, or connect returns true; on an error connect throws
ConnectEnabled(client, ok) ==
  IF ~ok THEN [client EXCEPT !.pc = "failed"]
  ELSE IF client.pc = "DOM" THEN [client EXCEPT !.pc = "CSS", !.enabled = Append(@, "CSS")]
  ELSE IF client.pc = "CSS" THEN [client EXCEPT !.pc = "Page", !.enabled = Append(@, "Page")]
  ELSE [client EXCEPT !.pc = "connected"]

\* --- getAllFreshStyleSheets, one await at a time

\* getAllFreshStyleSheets() is called: client is null, CDP.List is awaited
FreshCalled == [NoFresh EXCEPT !.pc = "list"]

\* the outer catch: with a client it awaits client.close() inside a try of
\* its own, without one it returns []
MutFreshCaught(f, at) ==
  [f EXCEPT !.pc = "returned", !.error = at, !.ret = <<>>]

FreshCaught(f, at) ==
  IF f.client
    THEN [f EXCEPT !.pc = "catchClose", !.error = at]
    ELSE [f EXCEPT !.pc = "returned", !.error = at, !.ret = <<>>]

\* CDP.List has answered: with the page among the targets CDP(...) is
\* awaited, without it [] is returned, and an error goes to the catch
FreshListed(f, outcome) ==
  CASE outcome = "found" -> [f EXCEPT !.pc = "open"]
    [] outcome = "missing" -> [f EXCEPT !.pc = "returned", !.ret = <<>>]
    [] OTHER -> FreshCaught(f, "list")

\* CDP(...) has answered: with a session the styleSheetAdded listener is
\* attached and DOM.enable() awaited; an error goes to the catch
FreshOpened(f, ok) ==
  IF ok THEN [f EXCEPT !.pc = "DOM", !.client = TRUE]
  ELSE FreshCaught(f, "open")

\* DOM.enable() or CSS.enable() has answered: CSS.enable() is awaited next,
\* then the timer of 200 ms; an error goes to the catch
FreshEnabled(f, ok) ==
  IF ~ok THEN FreshCaught(f, f.pc)
  ELSE [f EXCEPT !.pc = IF f.pc = "DOM" THEN "CSS" ELSE "wait"]

\* the styleSheetAdded listener: freshSheets.push(header)
FreshAdded(f, styleSheetId) == [f EXCEPT !.freshSheets = Append(@, styleSheetId)]

\* the for-of loop over freshSheets, which sees the headers pushed while it
\* runs: the text of the next header is awaited, or after the last one
\* client.close()
FreshLoop(f) ==
  [f EXCEPT !.pc = IF f.at < Len(f.freshSheets) THEN "texts" ELSE "close"]

\* CSS.getStyleSheetText has answered for the header the loop is at: the
\* entry is pushed, or on an error nothing is; the loop goes on
FreshText(f, ok, text) ==
  LET styleSheetId == f.freshSheets[f.at + 1]
  IN FreshLoop(
       IF ok
         THEN [f EXCEPT !.at = @ + 1,
                        !.results = Append(@, [styleSheetId |-> styleSheetId,
                                               text |-> text,
                                               contentKey |-> contentKey(text)])]
         ELSE [f EXCEPT !.at = @ + 1, !.skipped = Append(@, styleSheetId)])

\* the client.close() of the try block has settled: the results are
\* returned, or its error goes to the catch
FreshClosed(f, ok) ==
  IF ok THEN [f EXCEPT !.pc = "returned", !.closes = Append(@, TRUE), !.ret = f.results]
  ELSE FreshCaught([f EXCEPT !.closes = Append(@, FALSE)], "close")

\* the client.close() of the catch block has settled, its error is dropped:
\* [] is returned
FreshCatchClosed(f, ok) ==
  [f EXCEPT !.pc = "returned", !.closes = Append(@, ok), !.ret = <<>>]
\* --- initial values

\* poll callbacks that can be in flight together
MaxActive == 2

\* edits made in the inspector
MaxEdits == 2

\* a handleStyleSheetChange call that has not been made
NoHC ==
  [id |-> "", newText |-> NoText, changes |-> <<>>, localPath |-> NoPath,
   task |-> NoTask, pending |-> <<>>]

\* a poll callback that has returned
Idle == [pc |-> "idle", sheets |-> <<>>, fresh |-> <<>>, i |-> 0, hc |-> NoHC]

InitBrowser == [id \in StyleSheetIds |-> ServedText(id)]

NoLog == [id \in StyleSheetIds |-> [outcome |-> "none", text |-> NoText]]

InitAccepted == [id \in StyleSheetIds |-> NoText]

InitPatched == {}

NoEvent == [id |-> "", differed |-> FALSE, invoked |-> FALSE]

InitQueues == [p \in Paths \cup Disk |-> NoTask]

InitRecentWrites == EmptyMap

\* --- SpecQueue: any caller of the queue, tasks that resolve or reject

AbstractBody == [kind |-> "abstract"]

QEnqueue == \E p \in Paths : Enqueue(p, AbstractBody) /\ UNCHANGED <<guardVars, diffVars, agentVars, patchVars, clientVars>>

QStart == \E t \in TaskIds : StartTask(t) /\ UNCHANGED <<queues, guardVars, diffVars, agentVars, patchVars, clientVars>>

QSettle ==
  \E t \in TaskIds, o \in {"fulfilled", "rejected"} :
    SettleTask(t, o) /\ UNCHANGED <<queues, guardVars, diffVars, agentVars, patchVars, clientVars>>

QReturn == \E t \in TaskIds : EnqueueReturn(t) /\ UNCHANGED <<guardVars, diffVars, agentVars, patchVars, clientVars>>

InitSpecQueue ==
  /\ queues = InitQueues
  /\ tasks = <<>>
  /\ recentWrites = InitRecentWrites
  /\ now = 0
  /\ guardRet = NoCall
  /\ oldCss = BadText
  /\ newCss = BadText
  /\ changes = <<>>
  /\ diffPc = "ready"
  /\ sheets = <<>>
  /\ loading = {}
  /\ browser = InitBrowser
  /\ edits = 0
  /\ polling = "off"
  /\ cycles = <<>>
  /\ pollLog = NoLog
  /\ lastAccepted = InitAccepted
  /\ patched = InitPatched
  /\ lastEvent = NoEvent
  /\ disk = NoDisk
  /\ temps = NoTemps
  /\ writers = NoWriters
  /\ patchRes = NoPatch
  /\ boot = NoBoot
  /\ cdp = NoClient
  /\ fresh = NoFresh

NextQueue == QEnqueue \/ QStart \/ QSettle \/ QReturn

SpecQueue == InitSpecQueue /\ [][NextQueue]_vars

\* --- SpecGuard: any caller of the loop guard, and the passing of time

GuardFiles == {"/app/a.css"}

GuardSheets == {"s1"}

Keys == GuardFiles \cup {SheetKey(id) : id \in GuardSheets}

Contents == {BtnRed, BtnBlue}

GRegisterWrite ==
   \E k \in GuardFiles, c \in Contents :
    /\ recentWrites' = registerWrite(recentWrites, k, c)
    /\ guardRet' = [op |-> "registerWrite", key |-> k, content |-> c]
    /\ UNCHANGED <<now, queueVars, diffVars, agentVars, patchVars, clientVars>>

GRegisterStyleSheetWrite ==
  \E id \in GuardSheets, c \in Contents :
    /\ recentWrites' = registerStyleSheetWrite(recentWrites, id, c)
    /\ guardRet' = [op |-> "registerWrite", key |-> SheetKey(id), content |-> c]
    /\ UNCHANGED <<now, queueVars, diffVars, agentVars, patchVars, clientVars>>

ShouldIgnoreCall(k, c) ==
  /\ recentWrites' = shouldIgnoreWrites(recentWrites, k)
  /\ guardRet' = [op |-> "shouldIgnore", key |-> k, content |-> c,
                  val |-> shouldIgnoreValue(recentWrites, k, c)]
  /\ UNCHANGED <<now, queueVars, diffVars, agentVars, patchVars, clientVars>>

GShouldIgnore ==  \E k \in GuardFiles, c \in Contents : ShouldIgnoreCall(k, c)

\* shouldIgnoreStyleSheet(styleSheetId, content)
GShouldIgnoreStyleSheet ==
  \E id \in GuardSheets, c \in Contents : ShouldIgnoreCall(SheetKey(id), c)

GCleanup ==
  /\ recentWrites' = cleanup(recentWrites)
  /\ guardRet' = [op |-> "cleanup"]
  /\ UNCHANGED <<now, queueVars, diffVars, agentVars, patchVars, clientVars>>

GDestroy ==
  /\ recentWrites' = destroy(recentWrites)
  /\ guardRet' = [op |-> "destroy"]
  /\ UNCHANGED <<now, queueVars, diffVars, agentVars, patchVars, clientVars>>

\* d ms pass
Tick(d) ==
  /\ now + d <= MaxTime
  /\ now' = now + d

\* time passes: half a TTL, or just more than a TTL
GTick == (\E d \in {TTL \div 2, TTL + 1} : Tick(d)) /\ UNCHANGED <<recentWrites, guardRet, queueVars, diffVars, agentVars, patchVars, clientVars>>

InitSpecGuard ==
  /\ queues = InitQueues
  /\ tasks = <<>>
  /\ recentWrites = InitRecentWrites
  /\ now = 0
  /\ guardRet = NoCall
  /\ oldCss = BadText
  /\ newCss = BadText
  /\ changes = <<>>
  /\ diffPc = "ready"
  /\ sheets = <<>>
  /\ loading = {}
  /\ browser = InitBrowser
  /\ edits = 0
  /\ polling = "off"
  /\ cycles = <<>>
  /\ pollLog = NoLog
  /\ lastAccepted = InitAccepted
  /\ patched = InitPatched
  /\ lastEvent = NoEvent
  /\ disk = NoDisk
  /\ temps = NoTemps
  /\ writers = NoWriters
  /\ patchRes = NoPatch
  /\ boot = NoBoot
  /\ cdp = NoClient
  /\ fresh = NoFresh

NextGuard ==
  \/ GRegisterWrite
  \/ GRegisterStyleSheetWrite
  \/ GShouldIgnore
  \/ GShouldIgnoreStyleSheet
  \/ GCleanup
  \/ GDestroy
  \/ GTick

SpecGuard == InitSpecGuard /\ [][NextGuard]_vars

\* --- SpecDiff: findChangedDeclarations on any two texts

DiffSelectors == {"svg", "svg|a"}

DiffProps == {"color", "a|color"}

DiffValues == {"red", "tan"}

DiffDecls ==
  {Decl(sel, prop, value, imp) :
     sel \in DiffSelectors, prop \in DiffProps, value \in DiffValues, imp \in BOOLEAN}

\* the parseable texts of n declarations, and the unparseable text
DiffTexts(n) == {Text(decls, 0) : decls \in [1..n -> DiffDecls]}

DiffOldNew ==
  /\ diffPc = "ready"
  /\ changes' = findChangedDeclarations(oldCss, newCss)
  /\ diffPc' = "diffed"
  /\ UNCHANGED <<oldCss, newCss, queueVars, guardVars, agentVars, patchVars, clientVars>>

DiffSelf ==
  /\ diffPc = "ready"
  /\ changes' = findChangedDeclarations(oldCss, oldCss)
  /\ diffPc' = "self"
  /\ UNCHANGED <<oldCss, newCss, queueVars, guardVars, agentVars, patchVars, clientVars>>

InitSpecDiff ==
  /\ queues = InitQueues
  /\ tasks = <<>>
  /\ recentWrites = InitRecentWrites
  /\ now = 0
  /\ guardRet = NoCall
  /\ \E n \in 0..MaxDecls, k \in 0..MaxDecls :
       /\ k <= n
       /\ oldCss \in DiffTexts(k) \cup {BadText}
       /\ newCss \in DiffTexts(n - k) \cup {BadText}
  /\ changes = <<>>
  /\ diffPc = "ready"
  /\ sheets = <<>>
  /\ loading = {}
  /\ browser = InitBrowser
  /\ edits = 0
  /\ polling = "off"
  /\ cycles = <<>>
  /\ pollLog = NoLog
  /\ lastAccepted = InitAccepted
  /\ patched = InitPatched
  /\ lastEvent = NoEvent
  /\ disk = NoDisk
  /\ temps = NoTemps
  /\ writers = NoWriters
  /\ patchRes = NoPatch
  /\ boot = NoBoot
  /\ cdp = NoClient
  /\ fresh = NoFresh

NextDiff == DiffOldNew \/ DiffSelf

SpecDiff == InitSpecDiff /\ [][NextDiff]_vars

\* --- SpecAgent: the agent, the page and the clock
\*
\* An action is one turn of the event loop: the code that runs from the
\* arrival of a timer, a reply or the end of file I/O up to the next await
\* that has to wait for one of these. A turn works on a record of the state
\* it reads and writes, and the action commits the record.

CycleIds == 1..Len(cycles)

\* the state as a turn of callback c finds it, the callback at position cycle
Turn(cycle) ==
  [sheets |-> sheets, recentWrites |-> recentWrites, lastAccepted |-> lastAccepted,
   pollLog |-> NoLog, queues |-> queues, tasks |-> tasks, cycle |-> cycle,
   full |-> FALSE]

\* the poll callback after the sheet it looked at: the next sheet, or return
LoopNext(cycle) ==
  IF cycle.i < Len(cycle.sheets)
    THEN [cycle EXCEPT !.pc = "loop", !.i = @ + 1, !.hc = NoHC]
    ELSE Idle

\* the callbacks in flight once callback c has come to the given position
After(c, cycle) ==
  IF cycle = Idle
    THEN [j \in 1..(Len(cycles) - 1) |-> IF j < c THEN cycles[j] ELSE cycles[j + 1]]
    ELSE [cycles EXCEPT ![c] = cycle]

\* the task handed to fileQueue.enqueue
PatchBody(hc, chg) ==
  [kind |-> "patch", id |-> hc.id, newText |-> hc.newText, changes |-> chg]

\* await this.fileQueue.enqueue(path, ...), up to the await: the task is
\* chained, and called at once when the path has no task before it that is
\* still pending
enqueue(s, hc, path, chg, pc) ==
  LET prev == s.queues[path]
      ready == IF prev = NoTask THEN TRUE ELSE s.tasks[prev].st = "fulfilled"
  IN [s EXCEPT
        !.tasks = Append(@, [path |-> path, prev |-> prev,
                             st |-> IF ready THEN "running" ELSE "waiting",
                             returned |-> FALSE, body |-> PatchBody(hc, chg)]),
        !.queues = [@ EXCEPT ![path] = Len(s.tasks) + 1],
        !.cycle = [@ EXCEPT !.pc = pc,
                            !.hc = [hc EXCEPT !.localPath = path,
                                              !.task = Len(s.tasks) + 1]],
        !.full = Len(s.tasks) >= MaxTasks]

\* handleStyleSheetChange once localPath is settled: a Sass path is patched
\* as it is, any other path waits for findOriginalSource first
Proceed(s, hc) ==
  IF IsScss(hc.localPath)
    THEN enqueue(s, hc, hc.localPath, hc.changes, "enqueue")
    ELSE [s EXCEPT !.cycle = [@ EXCEPT !.pc = "srcmap", !.hc = hc]]

\* viteDevId || originalSource || this.urlResolver.resolve(sourceURL)
MutLocalPath(reg, id) ==
  IF getOriginalSource(reg, id) # NoPath THEN getOriginalSource(reg, id)
  ELSE IF getViteDevId(reg, id) # NoPath THEN getViteDevId(reg, id)
  ELSE resolve(getSourceURL(reg, id))

LocalPath(reg, id) ==
  IF getViteDevId(reg, id) # NoPath THEN getViteDevId(reg, id)
  ELSE IF getOriginalSource(reg, id) # NoPath THEN getOriginalSource(reg, id)
  ELSE resolve(getSourceURL(reg, id))

\* One pass of the loop over the copied sheets, with the call of
\* handleStyleSheetChange up to its first await. The guard is asked twice in
\* a row, by the loop and by handleStyleSheetChange, with the same answer.
\* Nothing in the try block of the loop throws: the texts are strings, and
\* handleStyleSheetChange catches whatever its own awaits throw. So the catch
\* block of the loop, with its registry.remove, is never entered.
PollSheet(s) ==
  LET cycle == s.cycle
      id == cycle.sheets[cycle.i].styleSheetId
      oldText == cycle.sheets[cycle.i].text
      newText == PollNewText(cycle.fresh, oldText)
      stored == getPreviousText(s.sheets, id)
      chg == findChangedDeclarations(stored, newText)
      hc == [id |-> id, newText |-> newText, changes |-> chg,
             localPath |-> LocalPath(s.sheets, id), task |-> NoTask,
             pending |-> <<>>]
      Logged(t, outcome) ==
        [t EXCEPT !.pollLog = [@ EXCEPT ![id] = [outcome |-> outcome, text |-> newText]]]
      Next(t, outcome) == [Logged(t, outcome) EXCEPT !.cycle = LoopNext(cycle)]
      Updated(t) == [t EXCEPT !.sheets = updateText(@, id, newText)]
      Asked(t) == [t EXCEPT !.recentWrites = shouldIgnoreStyleSheetWrites(@, id)]
      Accepted(t) == [t EXCEPT !.lastAccepted = [@ EXCEPT ![id] = newText]]
  IN IF ~Truthy(newText) THEN Next(s, "skipped")
     ELSE IF ~Truthy(oldText) THEN Next(Updated(s), "skipped")
     ELSE IF oldText = newText THEN Next(s, "skipped")
     ELSE IF shouldIgnoreStyleSheetValue(s.recentWrites, id, newText)
       THEN Next(Updated(Asked(s)), "ignored")
     ELSE IF ~Truthy(stored) \/ stored = newText
       THEN Next(Accepted(Updated(Asked(s))), "unchanged")
     ELSE IF chg = <<>>
       THEN Next(Accepted(Updated(Asked(s))), "diffed")
     ELSE IF hc.localPath = NoPath \/ Includes(hc.localPath, "/.next/")
       THEN [Logged(Accepted(Asked(s)), "diffed") EXCEPT
               !.cycle = [@ EXCEPT !.pc = "module", !.hc = hc]]
     ELSE Proceed(Logged(Accepted(Asked(s)), "diffed"), hc)

\* for (const sheet of sheets): the passes that follow one another without
\* an await that waits
RECURSIVE RunLoop(_)
RunLoop(s) == IF s.cycle.pc = "loop" THEN RunLoop(PollSheet(s)) ELSE s

\* the turn of callback c ends in state r
Commit(c, r) ==
  /\ ~r.full
  /\ sheets' = r.sheets
  /\ recentWrites' = r.recentWrites
  /\ lastAccepted' = r.lastAccepted
  /\ pollLog' = r.pollLog
  /\ queues' = r.queues
  /\ tasks' = r.tasks
  /\ cycles' = After(c, r.cycle)

\* setInterval fires: the callback takes its copy of the file-based sheets
\* and awaits getAllFreshStyleSheets
PollFire ==
  /\ polling = "on"
  /\ Len(cycles) < MaxActive
  /\ getFileBasedSheets(sheets) # <<>>
  /\ cycles' = Append(cycles, [Idle EXCEPT !.pc = "fetch",
                                           !.sheets = getFileBasedSheets(sheets)])
  /\ pollLog' = NoLog
  /\ UNCHANGED <<queueVars, guardVars, diffVars, sheets, loading, browser, edits,
                 polling, lastAccepted, patched, lastEvent, patchVars, clientVars>>

\* getAllFreshStyleSheets returns the texts of the page, or [] on an error,
\* and the callback goes through its sheets
PollFresh(c, ok) ==
  /\ cycles[c].pc = "fetch"
  /\ Commit(c, IF ok
                 THEN RunLoop(Turn([cycles[c] EXCEPT !.pc = "loop",
                                                     !.fresh = FreshSheets, !.i = 1]))
                 ELSE Turn(Idle))
  /\ UNCHANGED <<now, guardRet, diffVars, loading, browser, edits, polling,
                 patched, lastEvent, patchVars, clientVars>>

\* handleCSSModuleChanges: the changes whose selector resolves, with the
\* selector of the source, grouped by file in the order the files turn up
RECURSIVE ChangesByFile(_)
ChangesByFile(chg) ==
  IF chg = <<>> THEN <<>>
  ELSE LET map == ChangesByFile(SubSeq(chg, 1, Len(chg) - 1))
           change == chg[Len(chg)]
           resolved == selectorResolve(change.selector)
           mapped == [change EXCEPT !.selector = resolved.originalSelector]
           at == {j \in 1..Len(map) : map[j].filePath = resolved.filePath}
       IN IF resolved = NoResolved THEN map
          ELSE IF at = {}
            THEN Append(map, [filePath |-> resolved.filePath, changes |-> <<mapped>>])
          ELSE [j \in 1..Len(map) |->
                  IF j \in at THEN [map[j] EXCEPT !.changes = Append(@, mapped)]
                  ELSE map[j]]

\* handleCSSModuleChanges, once selectorResolver.resolve has answered for
\* every change: the first file is enqueued; with no file, the call returns
\* false and handleStyleSheetChange goes on with localPath, if it has one
HCModule(c) ==
  /\ cycles[c].pc = "module"
  /\ LET hc == cycles[c].hc
         s == Turn(cycles[c])
         groups == ChangesByFile(hc.changes)
     IN Commit(c,
          IF groups # <<>>
            THEN enqueue(s, [hc EXCEPT !.pending = Tail(groups)],
                         groups[1].filePath, groups[1].changes, "menqueue")
          ELSE IF hc.localPath = NoPath
            THEN RunLoop([s EXCEPT !.sheets = updateText(@, hc.id, hc.newText),
                                   !.cycle = LoopNext(@)])
          ELSE Proceed(s, hc))
  /\ UNCHANGED <<now, guardRet, diffVars, loading, browser, edits, polling,
                 patched, lastEvent, patchVars, clientVars>>

\* findOriginalSource has answered: a Sass or Less source replaces localPath,
\* and the patch is enqueued
HCSourceMap(c, source) ==
  /\ cycles[c].pc = "srcmap"
  /\ source \in findOriginalSource(cycles[c].hc.localPath)
  /\ Commit(c, enqueue(Turn(cycles[c]), cycles[c].hc,
                       IF source # NoPath
                            /\ (IsScss(source) \/ EndsWith(source, ".less"))
                         THEN source ELSE cycles[c].hc.localPath,
                       cycles[c].hc.changes, "enqueue"))
  /\ UNCHANGED <<now, guardRet, diffVars, loading, browser, edits, polling,
                 patched, lastEvent, patchVars, clientVars>>

\* the tasks once task t is through: its promise is fulfilled, enqueue has
\* returned, and the tasks chained to it are called. Once every enqueue call
\* has returned the queue holds no trace of them.
TasksAfter(ts, t) ==
  LET done == [u \in 1..Len(ts) |->
                 IF u = t THEN [ts[u] EXCEPT !.st = "fulfilled", !.returned = TRUE]
                 ELSE IF ts[u].prev = t /\ ts[u].st = "waiting"
                   THEN [ts[u] EXCEPT !.st = "running"]
                 ELSE ts[u]]
  IN IF \A u \in 1..Len(ts) : done[u].returned THEN <<>> ELSE done

\* patchMultiple is through with the file of the task that callback c waits
\* for: it wrote the file when a change found its rule (ok), and left it
\* alone when none did or the file is missing. In the same turn the task
\* registers a write with the loop guard, enqueue runs its finally block,
\* and the caller either enqueues the next file of handleCSSModuleChanges or
\* hands newText to the registry and goes on with its sheets.
TaskDone(c, ok) ==
  /\ cycles[c].pc \in {"enqueue", "menqueue"}
  /\ LET hc == cycles[c].hc
         t == hc.task
         s == [Turn(cycles[c]) EXCEPT
                 !.recentWrites =
                    IF ok THEN registerWrite(
                                 registerStyleSheetWrite(@, hc.id, hc.newText),
                                 tasks[t].path, hc.newText)
                    ELSE @,
                 !.queues = QueuesAfterFinally(t),
                 !.tasks = TasksAfter(@, t)]
     IN /\ tasks[t].st = "running"
        /\ ok => existsSync(tasks[t].path)
        /\ patched' = IF ok THEN patched \cup {[id |-> hc.id, text |-> hc.newText,
                                                  at |-> now]}
                      ELSE patched
        /\ Commit(c,
             IF hc.pending # <<>>
               THEN enqueue(s, [hc EXCEPT !.pending = Tail(@)],
                            hc.pending[1].filePath, hc.pending[1].changes,
                            "menqueue")
               ELSE RunLoop([s EXCEPT !.sheets = updateText(@, hc.id, hc.newText),
                                      !.cycle = LoopNext(@)]))
  /\ UNCHANGED <<now, guardRet, diffVars, loading, browser, edits, polling,
                 lastEvent, patchVars, clientVars>>

\* the styleSheetAdded handler up to its await: the page reports its
\* stylesheets once each, in document order
SheetAdded(id) ==
  /\ SheetIndex(sheets, id) = 0
  /\ \A j, k \in 1..Len(BrowserOrder) :
       (BrowserOrder[j] = id /\ k < j) => SheetIndex(sheets, BrowserOrder[k]) # 0
  /\ sheets' = register(sheets, Header(id))
  /\ loading' = loading \cup {id}
  /\ pollLog' = NoLog
  /\ UNCHANGED <<queueVars, guardVars, diffVars, browser, edits, polling, cycles,
                 lastAccepted, patched, lastEvent, patchVars, clientVars>>

\* getStyleSheetText answers the styleSheetAdded handler, or throws
SheetLoaded(id, ok) ==
  /\ id \in loading
  /\ ok => browser[id] # NoText
  /\ loading' = loading \ {id}
  /\ sheets' = IF ok THEN updateText(sheets, id, browser[id]) ELSE sheets
  /\ pollLog' = NoLog
  /\ UNCHANGED <<queueVars, guardVars, diffVars, browser, edits, polling, cycles,
                 lastAccepted, patched, lastEvent, patchVars, clientVars>>

\* The styleSheetChanged handler. It calls this.getFreshStyleSheetText, which
\* the agent does not define: the call throws a TypeError and the handler
\* ends there, before the registry is read. The handler leaves the agent as
\* it found it, so SpecAgent goes without it.
OnStyleSheetChanged(id) ==
  /\ lastEvent' = [id |-> id,
                   differed |-> /\ Truthy(getPreviousText(sheets, id))
                                /\ getPreviousText(sheets, id) # browser[id],
                   invoked |-> FALSE]
  /\ pollLog' = NoLog
  /\ UNCHANGED <<queueVars, guardVars, diffVars, sheets, loading, browser, edits,
                 polling, cycles, lastAccepted, patched, patchVars, clientVars>>

\* start() reaches startPolling()
StartPolling ==
  /\ polling = "off"
  /\ polling' = "on"
  /\ pollLog' = NoLog
  /\ UNCHANGED <<queueVars, guardVars, diffVars, sheets, loading, browser, edits,
                 cycles, lastAccepted, patched, lastEvent, patchVars, clientVars>>

\* the sweep of the loop guard
Sweep ==
  /\ recentWrites' = cleanup(recentWrites)
  /\ pollLog' = NoLog
  /\ UNCHANGED <<queueVars, now, guardRet, diffVars, sheets, loading, browser,
                 edits, polling, cycles, lastAccepted, patched, lastEvent, patchVars, clientVars>>

\* an edit in the inspector
BrowserEdit(id, text) ==
  /\ edits < MaxEdits
  /\ browser[id] # NoText
  /\ text # browser[id]
  /\ browser' = [browser EXCEPT ![id] = text]
  /\ edits' = edits + 1
  /\ pollLog' = NoLog
  /\ UNCHANGED <<queueVars, guardVars, diffVars, sheets, loading, polling, cycles,
                 lastAccepted, patched, lastEvent, patchVars, clientVars>>

\* more than a TTL passes
ATick ==
  /\ Tick(TTL + 1)
  /\ pollLog' = NoLog
  /\ UNCHANGED <<recentWrites, guardRet, queueVars, diffVars, sheets, loading,
                 browser, edits, polling, cycles, lastAccepted, patched, lastEvent, patchVars, clientVars>>

InitSpecAgent ==
  /\ queues = InitQueues
  /\ tasks = <<>>
  /\ recentWrites = InitRecentWrites
  /\ now = 0
  /\ guardRet = NoCall
  /\ oldCss = BadText
  /\ newCss = BadText
  /\ changes = <<>>
  /\ diffPc = "ready"
  /\ sheets = <<>>
  /\ loading = {}
  /\ browser = InitBrowser
  /\ edits = 0
  /\ polling = "off"
  /\ cycles = <<>>
  /\ pollLog = NoLog
  /\ lastAccepted = InitAccepted
  /\ patched = InitPatched
  /\ lastEvent = NoEvent
  /\ disk = NoDisk
  /\ temps = NoTemps
  /\ writers = NoWriters
  /\ patchRes = NoPatch
  /\ boot = NoBoot
  /\ cdp = NoClient
  /\ fresh = NoFresh

NextAgent ==
  \/ PollFire
  \/ \E c \in CycleIds, ok \in BOOLEAN : PollFresh(c, ok)
  \/ \E c \in CycleIds : HCModule(c)
  \/ \E c \in CycleIds, source \in Disk \cup {NoPath} : HCSourceMap(c, source)
  \/ \E c \in CycleIds, ok \in BOOLEAN : TaskDone(c, ok)
  \/ \E id \in StyleSheetIds : SheetAdded(id)
  \/ \E id \in StyleSheetIds, ok \in BOOLEAN : SheetLoaded(id, ok)
  \/ \E id \in StyleSheetIds : \E text \in PageTexts(id) : BrowserEdit(id, text)
  \/ StartPolling
  \/ Sweep
  \/ ATick

SpecAgent == InitSpecAgent /\ [][NextAgent]_vars

\* --- SpecEvents: the page and the two event handlers of the agent

InitSpecEvents ==
  /\ queues = InitQueues
  /\ tasks = <<>>
  /\ recentWrites = InitRecentWrites
  /\ now = 0
  /\ guardRet = NoCall
  /\ oldCss = BadText
  /\ newCss = BadText
  /\ changes = <<>>
  /\ diffPc = "ready"
  /\ sheets = <<>>
  /\ loading = {}
  /\ browser = InitBrowser
  /\ edits = 0
  /\ polling = "off"
  /\ cycles = <<>>
  /\ pollLog = NoLog
  /\ lastAccepted = InitAccepted
  /\ patched = InitPatched
  /\ lastEvent = NoEvent
  /\ disk = NoDisk
  /\ temps = NoTemps
  /\ writers = NoWriters
  /\ patchRes = NoPatch
  /\ boot = NoBoot
  /\ cdp = NoClient
  /\ fresh = NoFresh

NextEvents ==
  \/ \E id \in StyleSheetIds : SheetAdded(id)
  \/ \E id \in StyleSheetIds, ok \in BOOLEAN : SheetLoaded(id, ok)
  \/ \E id \in StyleSheetIds : \E text \in PageTexts(id) : BrowserEdit(id, text)
  \/ \E id \in StyleSheetIds : OnStyleSheetChanged(id)

SpecEvents == InitSpecEvents /\ [][NextEvents]_vars


\* --- SpecPatch: patchMultiple of the two patchers on a file

\* declarations in a rule of a file
MaxRuleDecls == 2

PatchDecls ==
  {FileDecl("color", "red", FALSE), FileDecl("color", "tan", FALSE),
   FileDecl("color", "red", TRUE), FileDecl("margin", "0", FALSE)}

PatchDeclLists ==
  UNION {[1..n -> PatchDecls] : n \in 0..MaxRuleDecls}

\* the rules nested in a rule: none, or one written with or without &
PatchChildren ==
  {<<>>, <<Rule(".b", <<FileDecl("color", "red", FALSE)>>, <<>>)>>,
   <<Rule("&.b", <<FileDecl("color", "red", FALSE)>>, <<>>)>>}

\* a second rule with the selector of the first, or with white space in it
PatchSecondRules ==
  {Rule(".a", <<FileDecl("color", "tan", FALSE)>>, <<>>),
   Rule(".a  .b", <<FileDecl("color", "red", FALSE)>>, <<>>)}

\* the files: flat ones as a browser serves them, and ones with nested rules
FlatContents ==
  {Content(<<>>)}
    \cup {Content(<<Rule(".a", decls, <<>>)>>) : decls \in PatchDeclLists}
    \cup {Content(<<Rule(".a", <<d>>, <<>>), second>>) :
            d \in PatchDecls, second \in PatchSecondRules}

NestedContents ==
  {Content(<<Rule(".a", <<d>>, children)>>) :
     d \in PatchDecls, children \in PatchChildren \ {<<>>}}

PatchContents == FlatContents \cup NestedContents \cup {BadContent, NoFile}

\* one change, as the differ builds them
PatchAnyChanges ==
  {[type |-> type, selector |-> selector, prop |-> prop,
    oldValue |-> IF type = "add" THEN NoValue ELSE "red",
    newValue |-> IF type = "delete" THEN NoValue ELSE newValue,
    important |-> hasImportant(newValue), position |-> 1] :
     type \in {"add", "change", "delete"},
     selector \in {".a", ".b", ".a .b", ".a.b", ".c"},
     prop \in {"color", "margin"},
     newValue \in {"tan", "tan !important"}}

\* await this.writeFile(filePath, root.toString()) as one step: the file
\* holds the new content, or writeFile throws and the file is as it was
Patched(op, filePath, changeList, r, threw) ==
  /\ changes' = changeList
  /\ disk' = IF r.write /\ ~threw THEN [disk EXCEPT ![filePath] = r.content]
             ELSE disk
  /\ patchRes' = [op |-> op, filePath |-> filePath, before |-> disk,
                  success |-> IF threw THEN 0 ELSE r.success,
                  failed |-> IF threw THEN Len(changeList) ELSE r.failed,
                  wrote |-> r.write, threw |-> threw]
  /\ UNCHANGED <<diffPc, temps, writers, queueVars, guardVars, agentVars, clientVars>>

Patch(op, filePath, changeList, written) ==
  \E r \in {patchMultiple(disk[filePath], changeList, IsScss(filePath))} :
    Patched(op, filePath, changeList, r, r.write /\ ~written)

\* the file is patched with the changes from its own text to another text
PatchDiff ==
  \E filePath \in PatchPaths, content \in FlatContents, written \in BOOLEAN :
    /\ patchRes.op = "none"
    /\ oldCss' = TextOf(disk[filePath])
    /\ newCss' = TextOf(content)
    /\ \E changeList \in {findChangedDeclarations(TextOf(disk[filePath]), TextOf(content))} :
         Patch("diff", filePath, changeList, written)

\* the file is patched with any one change
PatchAny ==
  \E filePath \in PatchPaths, change \in PatchAnyChanges, written \in BOOLEAN :
    /\ patchRes.op = "none"
    /\ oldCss' = oldCss
    /\ newCss' = newCss
    /\ Patch("any", filePath, <<change>>, written)

InitSpecPatch ==
  /\ queues = InitQueues
  /\ tasks = <<>>
  /\ recentWrites = InitRecentWrites
  /\ now = 0
  /\ guardRet = NoCall
  /\ oldCss = BadText
  /\ newCss = BadText
  /\ changes = <<>>
  /\ diffPc = "ready"
  /\ sheets = <<>>
  /\ loading = {}
  /\ browser = InitBrowser
  /\ edits = 0
  /\ polling = "off"
  /\ cycles = <<>>
  /\ pollLog = NoLog
  /\ lastAccepted = InitAccepted
  /\ patched = InitPatched
  /\ lastEvent = NoEvent
  /\ temps = NoTemps
  /\ writers = NoWriters
  /\ patchRes = NoPatch
  /\ boot = NoBoot
  /\ cdp = NoClient
  /\ fresh = NoFresh
  /\ \E filePath \in PatchPaths, content \in PatchContents :
       disk = [NoDisk EXCEPT ![filePath] = content]

NextPatch == PatchDiff \/ PatchAny

SpecPatch == InitSpecPatch /\ [][NextPatch]_vars

\* --- SpecWrite: writeFile with atomicWrite in two patch tasks, the
\* registration that follows it, and checks of the loop guard

\* the stylesheet a file is patched for
SheetOf(filePath) == IF IsScss(filePath) THEN "s2" ELSE "s1"

WriteRules(filePath, v1, v2) ==
  IF IsScss(filePath)
    THEN <<Rule(".item", <<FileDecl("color", v1, FALSE)>>, <<>>),
           Rule(".nav", <<FileDecl("color", v2, FALSE)>>, <<>>)>>
    ELSE <<Rule(".a", <<FileDecl("color", v1, FALSE)>>, <<>>),
           Rule(".b", <<FileDecl("color", v2, FALSE)>>, <<>>)>>

\* the file before any patch, and what root.toString() can be after one
WriteBefore(filePath) == Content(WriteRules(filePath, "red", "red"))

WriteAfter(filePath) ==
  {Content(WriteRules(filePath, "tan", "red")), Content(WriteRules(filePath, "tan", "tan"))}

WriteUnchanged == <<queues, tasks, diffVars, agentVars, patchRes>>

\* writeFile(filePath, content) up to its first await: tempPath is computed
\* and fs writeFile(tempPath, content) is requested
WriteFile(filePath, content) ==
  /\ writers[filePath].pc = "idle"
  /\ writers' = [writers EXCEPT ![filePath] =
                   [pc |-> "open", content |-> content,
                    tempPath |-> tempPath(filePath, now), fd |-> [at |-> "none"], k |-> 0]]
  /\ UNCHANGED <<disk, temps, now, recentWrites, guardRet, clientVars>>

\* fs writeFile opens tempPath with flag 'w': created, or truncated
OpenTemp(filePath) ==
  /\ writers[filePath].pc = "open"
  /\ temps' = [temps EXCEPT ![writers[filePath].tempPath] = Content(<<>>)]
  /\ writers' = [writers EXCEPT ![filePath].pc = "writing",
                                ![filePath].fd = [at |-> "temp", name |-> writers[filePath].tempPath]]
  /\ UNCHANGED <<disk, now, recentWrites, guardRet, clientVars>>

\* the next chunk goes to the file the descriptor is open on, whatever its
\* name is now; after the last chunk the descriptor is closed and
\* rename(tempPath, filePath) is requested
WriteChunk(filePath) ==
  LET w == writers[filePath]
  IN /\ w.pc = "writing"
     /\ temps' = IF w.fd.at = "temp"
                   THEN [temps EXCEPT ![w.fd.name] = Written(@, w.k + 1, w.content.rules[w.k + 1])]
                   ELSE temps
     /\ disk' = IF w.fd.at = "file"
                  THEN [disk EXCEPT ![w.fd.name] = Written(@, w.k + 1, w.content.rules[w.k + 1])]
                  ELSE disk
     /\ writers' = [writers EXCEPT ![filePath].k = w.k + 1,
                                   ![filePath].pc = IF w.k + 1 = Len(w.content.rules)
                                                      THEN "rename" ELSE "writing",
                                   ![filePath].fd = IF w.k + 1 = Len(w.content.rules)
                                                      THEN [at |-> "none"] ELSE @]
     /\ UNCHANGED <<now, recentWrites, guardRet, clientVars>>

\* fs writeFile rejects (no space, no permission): writeFile throws and
\* patchMultiple returns { success: 0, failed: n }
WriteThrows(filePath) ==
  /\ writers[filePath].pc \in {"open", "writing"}
  /\ writers' = [writers EXCEPT ![filePath].pc = "failed", ![filePath].fd = [at |-> "none"]]
  /\ UNCHANGED <<disk, temps, now, recentWrites, guardRet, clientVars>>

\* the descriptors that were open on the file named tempPath are open on the
\* file named filePath; those open on the replaced file are on a file with
\* no name
AfterRename(fd, temp, filePath) ==
  IF fd.at = "temp" /\ fd.name = temp THEN [at |-> "file", name |-> filePath]
  ELSE IF fd.at = "file" /\ fd.name = filePath THEN [at |-> "gone"]
  ELSE fd

\* rename(tempPath, filePath): the file is replaced, or ENOENT when no file
\* has the name tempPath any more
Rename(filePath) ==
  LET w == writers[filePath]
  IN /\ w.pc = "rename"
     /\ IF temps[w.tempPath].exists
          THEN /\ disk' = [disk EXCEPT ![filePath] = temps[w.tempPath]]
               /\ temps' = [temps EXCEPT ![w.tempPath] = NoFile]
               /\ writers' = [p \in PatchPaths |->
                                IF p = filePath THEN [w EXCEPT !.pc = "renamed"]
                                ELSE IF writers[p].pc = "writing"
                                  THEN [writers[p] EXCEPT !.fd = AfterRename(@, w.tempPath, filePath)]
                                ELSE writers[p]]
          ELSE /\ writers' = [writers EXCEPT ![filePath].pc = "failed"]
               /\ UNCHANGED <<disk, temps, clientVars>>
     /\ UNCHANGED <<now, recentWrites, guardRet, clientVars>>

\* the patch task after await patcher.patchMultiple: result.success > 0, the
\* new text is registered under the sheet id and the path
RegisterPatch(filePath) ==
  /\ writers[filePath].pc = "renamed"
  /\ recentWrites' = registerWrite(registerStyleSheetWrite(recentWrites, SheetOf(filePath),
                                                           TextOf(writers[filePath].content)),
                                   filePath, TextOf(writers[filePath].content))
  /\ writers' = [writers EXCEPT ![filePath].pc = "done"]
  /\ UNCHANGED <<disk, temps, now, guardRet, clientVars>>

WWriteFile ==
  \E filePath \in PatchPaths :
    \E content \in WriteAfter(filePath) :
      WriteFile(filePath, content) /\ UNCHANGED WriteUnchanged

WOpenTemp == \E filePath \in PatchPaths : OpenTemp(filePath) /\ UNCHANGED WriteUnchanged

WWriteChunk == \E filePath \in PatchPaths : WriteChunk(filePath) /\ UNCHANGED WriteUnchanged

WWriteThrows == \E filePath \in PatchPaths : WriteThrows(filePath) /\ UNCHANGED WriteUnchanged

WRename == \E filePath \in PatchPaths : Rename(filePath) /\ UNCHANGED WriteUnchanged

WRegisterPatch == \E filePath \in PatchPaths : RegisterPatch(filePath) /\ UNCHANGED WriteUnchanged

\* a handler or a poll asks shouldIgnoreStyleSheet about a text the browser has
WShouldIgnore ==
  \E filePath \in PatchPaths :
    \E content \in WriteAfter(filePath) :
      ShouldIgnoreCall(SheetKey(SheetOf(filePath)), TextOf(content))

\* a ms passes
WTick ==
  /\ now < MaxStamp
  /\ now' = now + 1
  /\ UNCHANGED <<disk, temps, writers, recentWrites, guardRet, WriteUnchanged, clientVars>>

InitSpecWrite ==
  /\ queues = InitQueues
  /\ tasks = <<>>
  /\ recentWrites = InitRecentWrites
  /\ now = 0
  /\ guardRet = NoCall
  /\ oldCss = BadText
  /\ newCss = BadText
  /\ changes = <<>>
  /\ diffPc = "ready"
  /\ sheets = <<>>
  /\ loading = {}
  /\ browser = InitBrowser
  /\ edits = 0
  /\ polling = "off"
  /\ cycles = <<>>
  /\ pollLog = NoLog
  /\ lastAccepted = InitAccepted
  /\ patched = InitPatched
  /\ lastEvent = NoEvent
  /\ temps = NoTemps
  /\ writers = NoWriters
  /\ patchRes = NoPatch
  /\ boot = NoBoot
  /\ cdp = NoClient
  /\ fresh = NoFresh
  /\ disk = [p \in PatchPaths |-> WriteBefore(p)]

NextWrite ==
  \/ WWriteFile
  \/ WOpenTemp
  \/ WWriteChunk
  \/ WWriteThrows
  \/ WRename
  \/ WRegisterPatch
  \/ WShouldIgnore
  \/ WTick

SpecWrite == InitSpecWrite /\ [][NextWrite]_vars

\* --- SpecCycle: one call of handleStyleSheetChange for a stylesheet whose
\* file is known, on any stored text, new text and file

\* the files and texts of a cycle: a rule with one declaration, parseable or not
CycleContents ==
  {Content(<<Rule(".a", <<FileDecl("color", v, imp)>>, <<>>)>>) :
     v \in {"red", "tan"}, imp \in BOOLEAN}
    \cup {Content(<<>>), BadContent}

CycleTexts == {TextOf(content) : content \in CycleContents \ {Content(<<>>)}}

\* the registry entry of a stylesheet that the dev server serves from filePath
CycleSheet(styleSheetId, filePath, text) ==
  [styleSheetId |-> styleSheetId, header |-> Header(styleSheetId), text |-> text,
   lastModified |-> 0, viteDevId |-> filePath, originalSource |-> NoPath]

\* the loop guard after a patch of another text a ms ago
CycleEarlier(styleSheetId, filePath) ==
  MapSet(MapSet(EmptyMap, SheetKey(styleSheetId),
                [hash |-> computeHash(BtnBlue), timestamp |-> 0]),
         filePath, [hash |-> computeHash(BtnBlue), timestamp |-> 0])

\* the loop guard after a patch that wrote `.a { color: tan }` a ms ago
CycleOwnWrite(styleSheetId, filePath) ==
  MapSet(MapSet(EmptyMap, SheetKey(styleSheetId),
                [hash |-> computeHash(TextOf(Content(<<Rule(".a", <<FileDecl("color", "tan", FALSE)>>, <<>>)>>))),
                 timestamp |-> 0]),
         filePath,
         [hash |-> computeHash(TextOf(Content(<<Rule(".a", <<FileDecl("color", "tan", FALSE)>>, <<>>)>>))),
          timestamp |-> 0])

\* what the call leaves behind
CycleDone(styleSheetId, newText, oldText, differ, patcher, r, threw) ==
  /\ newCss' = newText
  /\ oldCss' = oldText
  /\ changes' = IF differ THEN findChangedDeclarations(oldText, newText) ELSE <<>>
  /\ disk' = IF patcher /\ r.write /\ ~threw
               THEN [disk EXCEPT ![LocalPath(sheets, styleSheetId)] = r.content]
               ELSE disk
  /\ recentWrites' =
       IF patcher /\ r.success > 0 /\ ~threw
         THEN registerWrite(registerStyleSheetWrite(recentWrites, styleSheetId, newText),
                            LocalPath(sheets, styleSheetId), newText)
         ELSE shouldIgnoreStyleSheetWrites(recentWrites, styleSheetId)
  /\ sheets' = updateText(sheets, styleSheetId, newText)
  /\ patchRes' = [op |-> "cycle", filePath |-> LocalPath(sheets, styleSheetId),
                  before |-> disk, differ |-> differ, patcher |-> patcher,
                  success |-> IF patcher /\ ~threw THEN r.success ELSE 0,
                  failed |-> IF ~patcher THEN 0 ELSE IF threw
                               THEN Len(findChangedDeclarations(oldText, newText))
                               ELSE r.failed,
                  wrote |-> patcher /\ r.write, threw |-> threw]
  /\ UNCHANGED <<now, guardRet, diffPc, temps, writers, queueVars, loading, browser,
                 edits, polling, cycles, pollLog, lastAccepted, patched, lastEvent, clientVars>>

\* the loop guard says ignore: the call logs and returns
CycleIgnored(styleSheetId, newText, oldText) ==
  /\ newCss' = newText
  /\ oldCss' = oldText
  /\ changes' = <<>>
  /\ recentWrites' = shouldIgnoreStyleSheetWrites(recentWrites, styleSheetId)
  /\ patchRes' = [op |-> "ignored", filePath |-> LocalPath(sheets, styleSheetId),
                  before |-> disk, differ |-> FALSE, patcher |-> FALSE,
                  success |-> 0, failed |-> 0, wrote |-> FALSE, threw |-> FALSE]
  /\ UNCHANGED <<sheets, disk, now, guardRet, diffPc, temps, writers, queueVars, loading,
                 browser, edits, polling, cycles, pollLog, lastAccepted, patched, lastEvent, clientVars>>

\* handleStyleSheetChange(styleSheetId, newText): the differ compares the
\* stored text with the new one, the patcher applies the changes to the file,
\* a successful patch is registered, and the registry takes the new text
handleStyleSheetChange(styleSheetId, newText, written) ==
  /\ patchRes.op = "none"
  /\ \E oldText \in {getPreviousText(sheets, styleSheetId)} :
       IF shouldIgnoreStyleSheetValue(recentWrites, styleSheetId, newText)
         THEN CycleIgnored(styleSheetId, newText, oldText)
       ELSE IF ~Truthy(oldText) \/ oldText = newText
         THEN CycleDone(styleSheetId, newText, oldText, FALSE, FALSE, NoPatch, FALSE)
       ELSE IF findChangedDeclarations(oldText, newText) = <<>>
         THEN CycleDone(styleSheetId, newText, oldText, TRUE, FALSE, NoPatch, FALSE)
       ELSE \E r \in {patchMultiple(disk[LocalPath(sheets, styleSheetId)],
                                    findChangedDeclarations(oldText, newText),
                                    IsScss(LocalPath(sheets, styleSheetId)))} :
              CycleDone(styleSheetId, newText, oldText, TRUE, TRUE, r, r.write /\ ~written)

CycleChange ==
  \E newText \in CycleTexts, written \in BOOLEAN :
    handleStyleSheetChange(sheets[1].styleSheetId, newText, written)

InitSpecCycle ==
  /\ queues = InitQueues
  /\ tasks = <<>>
  /\ now = 1
  /\ guardRet = NoCall
  /\ oldCss = BadText
  /\ newCss = BadText
  /\ changes = <<>>
  /\ diffPc = "ready"
  /\ \E filePath \in PatchPaths, text \in CycleTexts, content \in CycleContents :
       /\ sheets = <<CycleSheet(IF IsScss(filePath) THEN "s2" ELSE "s1", filePath, text)>>
       /\ recentWrites \in {InitRecentWrites,
                             CycleEarlier(IF IsScss(filePath) THEN "s2" ELSE "s1", filePath),
                             CycleOwnWrite(IF IsScss(filePath) THEN "s2" ELSE "s1", filePath)}
       /\ disk = [NoDisk EXCEPT ![filePath] = content]
  /\ loading = {}
  /\ browser = InitBrowser
  /\ edits = 0
  /\ polling = "off"
  /\ cycles = <<>>
  /\ pollLog = NoLog
  /\ lastAccepted = InitAccepted
  /\ patched = InitPatched
  /\ lastEvent = NoEvent
  /\ temps = NoTemps
  /\ writers = NoWriters
  /\ patchRes = NoPatch
  /\ boot = NoBoot
  /\ cdp = NoClient
  /\ fresh = NoFresh

NextCycle == CycleChange

SpecCycle == InitSpecCycle /\ [][NextCycle]_vars
\* --- SpecTarget: the choice of the file to patch in handleStyleSheetChange,
\* on any registry entry, any changes and any answer of the source map

\* the paths a bundler can announce for a stylesheet
TargetPaths == {NoPath, "/app/src/app.css", "/app/src/Menu.module.scss"}

\* the URLs a header can carry: none, a file of the project, a Next.js
\* bundle, a file that is not on the disk
TargetURLs ==
  {NoPath, "http://localhost:3000/src/app.css",
   "http://localhost:3000/_next/static/css/app/layout.css",
   "http://localhost:3000/src/gone.css"}

\* the sources a source map can name, or null
TargetSources == {NoPath, "/app/src/app.scss", "/app/src/theme.less", "/app/src/app.js"}

TargetChange(selector) ==
  [type |-> "change", selector |-> selector, prop |-> "color",
   oldValue |-> "red", newValue |-> "tan"]

TargetChanges ==
  {<<TargetChange(a)>> : a \in {".btn", ".Menu_item__abc"}}
    \cup {<<TargetChange(a), TargetChange(b)>> : a, b \in {".btn", ".Menu_item__abc"}}

\* the files of changesByFile, in the order handleCSSModuleChanges patches them
RECURSIVE GroupPaths(_)
GroupPaths(groups) ==
  IF groups = <<>> THEN <<>> ELSE <<groups[1].filePath>> \o GroupPaths(Tail(groups))

\* handleStyleSheetChange from `let localPath` to the enqueue: the files the
\* call patches, and how it came to them
PatchTargets(reg, styleSheetId, chg, source) ==
  LET localPath == LocalPath(reg, styleSheetId)
      isNextJSBundle == localPath # NoPath /\ Includes(localPath, "/.next/")
      groups == IF localPath = NoPath \/ isNextJSBundle
                  THEN ChangesByFile(chg) ELSE <<>>
  IN IF groups # <<>>
       THEN [localPath |-> localPath, via |-> "module", targets |-> GroupPaths(groups)]
     ELSE IF localPath = NoPath
       THEN [localPath |-> localPath, via |-> "unmapped", targets |-> <<>>]
     ELSE IF ~IsScss(localPath) /\ chg # <<>> /\ source # NoPath
               /\ (IsScss(source) \/ EndsWith(source, ".less"))
       THEN [localPath |-> localPath, via |-> "sourcemap", targets |-> <<source>>]
     ELSE [localPath |-> localPath, via |-> "path", targets |-> <<localPath>>]

ChooseTarget ==
  /\ patchRes.op = "none"
  /\ \E source \in TargetSources :
       patchRes' = [op |-> "target"] @@ PatchTargets(sheets, sheets[1].styleSheetId,
                                                     changes, source)
  /\ UNCHANGED <<sheets, changes, now, guardVars, queueVars, oldCss, newCss, diffPc,
                 disk, temps, writers, loading, browser, edits, polling, cycles,
                 pollLog, lastAccepted, patched, lastEvent, clientVars>>

InitSpecTarget ==
  /\ queues = InitQueues
  /\ tasks = <<>>
  /\ recentWrites = InitRecentWrites
  /\ now = 0
  /\ guardRet = NoCall
  /\ oldCss = BadText
  /\ newCss = BadText
  /\ diffPc = "ready"
  /\ changes \in TargetChanges
  /\ \E viteDevId \in TargetPaths, originalSource \in TargetPaths, sourceURL \in TargetURLs :
       sheets = <<[styleSheetId |-> "s1",
                   header |-> [styleSheetId |-> "s1", sourceURL |-> sourceURL,
                               isInline |-> FALSE],
                   text |-> BtnBlue, lastModified |-> 0, viteDevId |-> viteDevId,
                   originalSource |-> originalSource]>>
  /\ loading = {}
  /\ browser = InitBrowser
  /\ edits = 0
  /\ polling = "off"
  /\ cycles = <<>>
  /\ pollLog = NoLog
  /\ lastAccepted = InitAccepted
  /\ patched = InitPatched
  /\ lastEvent = NoEvent
  /\ disk = NoDisk
  /\ temps = NoTemps
  /\ writers = NoWriters
  /\ patchRes = NoPatch
  /\ boot = NoBoot
  /\ cdp = NoClient
  /\ fresh = NoFresh

NextTarget == ChooseTarget

SpecTarget == InitSpecTarget /\ [][NextTarget]_vars
\* --- SpecRegistry: StyleSheetRegistry under any sequence of its calls

\* this.sheets.delete(styleSheetId)
remove(reg, styleSheetId) ==
  SelectSeq(reg, LAMBDA sheet : sheet.styleSheetId # styleSheetId)

\* this.sheets.clear()
clear(reg) == <<>>

setViteDevId(reg, styleSheetId, viteDevId) ==
  IF SheetIndex(reg, styleSheetId) = 0 THEN reg
  ELSE [reg EXCEPT ![SheetIndex(reg, styleSheetId)].viteDevId = viteDevId]

setOriginalSource(reg, styleSheetId, sourcePath) ==
  IF SheetIndex(reg, styleSheetId) = 0 THEN reg
  ELSE [reg EXCEPT ![SheetIndex(reg, styleSheetId)].originalSource = sourcePath]

\* this.sheets.get(styleSheetId): the entry, or undefined
NoSheet == [styleSheetId |-> ""]

get(reg, styleSheetId) ==
  IF SheetIndex(reg, styleSheetId) = 0 THEN NoSheet
  ELSE reg[SheetIndex(reg, styleSheetId)]

\* the headers the browser can report: a stylesheet under its URL, and the
\* same id once more after a navigation, under another URL
RegistryHeaders ==
  {[styleSheetId |-> id, sourceURL |-> url, isInline |-> FALSE] :
     id \in StyleSheetIds,
     url \in {"http://localhost:3000/src/app.css", "http://localhost:3000/src/other.css"}}

\* a call of the registry: what it was called with, the registry before it,
\* and what it returned
Called(op, styleSheetId, ret) ==
  /\ patchRes' = [op |-> op, styleSheetId |-> styleSheetId, before |-> sheets, ret |-> ret]
  /\ UNCHANGED <<now, recentWrites, guardRet, queueVars, diffVars, disk, temps, writers,
                 loading, browser, edits, polling, cycles, pollLog, lastAccepted,
                 patched, lastEvent, clientVars>>

RRegister(header) ==
  /\ sheets' = register(sheets, header)
  /\ Called("register", header.styleSheetId,
            get(register(sheets, header), header.styleSheetId))

RUpdateText(styleSheetId, text) ==
  /\ sheets' = updateText(sheets, styleSheetId, text)
  /\ Called("updateText", styleSheetId, NoSheet)

RSetViteDevId(styleSheetId, viteDevId) ==
  /\ sheets' = setViteDevId(sheets, styleSheetId, viteDevId)
  /\ Called("setViteDevId", styleSheetId, NoSheet)

RSetOriginalSource(styleSheetId, sourcePath) ==
  /\ sheets' = setOriginalSource(sheets, styleSheetId, sourcePath)
  /\ Called("setOriginalSource", styleSheetId, NoSheet)

RRemove(styleSheetId) ==
  /\ sheets' = remove(sheets, styleSheetId)
  /\ Called("remove", styleSheetId, NoSheet)

RClear ==
  /\ sheets' = clear(sheets)
  /\ Called("clear", "", NoSheet)

\* a TTL and a ms pass
RTick ==
  /\ Tick(TTL + 1)
  /\ UNCHANGED <<sheets, patchRes, recentWrites, guardRet, queueVars, diffVars, disk, temps,
                 writers, loading, browser, edits, polling, cycles, pollLog,
                 lastAccepted, patched, lastEvent, clientVars>>

InitSpecRegistry ==
  /\ queues = InitQueues
  /\ tasks = <<>>
  /\ recentWrites = InitRecentWrites
  /\ now = 0
  /\ guardRet = NoCall
  /\ oldCss = BadText
  /\ newCss = BadText
  /\ changes = <<>>
  /\ diffPc = "ready"
  /\ sheets = <<>>
  /\ loading = {}
  /\ browser = InitBrowser
  /\ edits = 0
  /\ polling = "off"
  /\ cycles = <<>>
  /\ pollLog = NoLog
  /\ lastAccepted = InitAccepted
  /\ patched = InitPatched
  /\ lastEvent = NoEvent
  /\ disk = NoDisk
  /\ temps = NoTemps
  /\ writers = NoWriters
  /\ patchRes = NoPatch
  /\ boot = NoBoot
  /\ cdp = NoClient
  /\ fresh = NoFresh

NextRegistry ==
  \/ \E header \in RegistryHeaders : RRegister(header)
  \/ \E styleSheetId \in StyleSheetIds, text \in {BtnRed, BtnBlue} :
       RUpdateText(styleSheetId, text)
  \/ \E styleSheetId \in StyleSheetIds : RSetViteDevId(styleSheetId, "/app/src/app.css")
  \/ \E styleSheetId \in StyleSheetIds :
       RSetOriginalSource(styleSheetId, "/app/src/Menu.module.scss")
  \/ \E styleSheetId \in StyleSheetIds : RRemove(styleSheetId)
  \/ RClear
  \/ RTick

SpecRegistry == InitSpecRegistry /\ [][NextRegistry]_vars
\* --- SpecHistory: the agent on a page whose stylesheets never return to a
\* text they had before, so that a text tells when the page produced it

\* the texts of a stylesheet, in the order the inspector leaves them
History(styleSheetId) ==
  IF styleSheetId = "s1"
    THEN <<AppText("red", "red", 0), AppText("red", "tan", 0), AppText("red", "red", 2)>>
    ELSE <<LayoutText("red", "red"), LayoutText("tan", "red"), LayoutText("red", "tan")>>

\* the place of a text in the history of a stylesheet; 0 for any other text
Produced(styleSheetId, text) ==
  IF \E k \in 1..Len(History(styleSheetId)) : History(styleSheetId)[k] = text
    THEN CHOOSE k \in 1..Len(History(styleSheetId)) : History(styleSheetId)[k] = text
    ELSE 0

\* the next edit in the inspector
NextEdit(id) ==
  /\ Produced(id, browser[id]) \in 1..(Len(History(id)) - 1)
  /\ BrowserEdit(id, History(id)[Produced(id, browser[id]) + 1])

InitSpecHistory ==
  /\ queues = InitQueues
  /\ tasks = <<>>
  /\ recentWrites = InitRecentWrites
  /\ now = 0
  /\ guardRet = NoCall
  /\ oldCss = BadText
  /\ newCss = BadText
  /\ changes = <<>>
  /\ diffPc = "ready"
  /\ sheets = <<>>
  /\ loading = {}
  /\ browser = InitBrowser
  /\ edits = 0
  /\ polling = "off"
  /\ cycles = <<>>
  /\ pollLog = NoLog
  /\ lastAccepted = InitAccepted
  /\ patched = InitPatched
  /\ lastEvent = NoEvent
  /\ disk = NoDisk
  /\ temps = NoTemps
  /\ writers = NoWriters
  /\ patchRes = NoPatch
  /\ boot = NoBoot
  /\ cdp = NoClient
  /\ fresh = NoFresh

NextHistory ==
  \/ PollFire
  \/ \E c \in CycleIds, ok \in BOOLEAN : PollFresh(c, ok)
  \/ \E c \in CycleIds : HCModule(c)
  \/ \E c \in CycleIds, source \in Disk \cup {NoPath} : HCSourceMap(c, source)
  \/ \E c \in CycleIds, ok \in BOOLEAN : TaskDone(c, ok)
  \/ \E id \in StyleSheetIds : SheetAdded(id)
  \/ \E id \in StyleSheetIds, ok \in BOOLEAN : SheetLoaded(id, ok)
  \/ \E id \in StyleSheetIds : NextEdit(id)
  \/ StartPolling
  \/ Sweep
  \/ ATick

SpecHistory == InitSpecHistory /\ [][NextHistory]_vars
\* --- SpecVanish: the agent on a page that can drop a stylesheet

\* the page drops a stylesheet: from now on CSS.getStyleSheetText answers
\* 'No style sheet with given id' for it, and a new session does not list it
SheetGone(id) ==
  /\ edits < MaxEdits
  /\ browser[id] # NoText
  /\ SheetIndex(sheets, id) # 0
  /\ browser' = [browser EXCEPT ![id] = NoText]
  /\ edits' = edits + 1
  /\ pollLog' = NoLog
  /\ UNCHANGED <<queueVars, guardVars, diffVars, sheets, loading, polling, cycles,
                 lastAccepted, patched, lastEvent, patchVars, clientVars>>

InitSpecVanish ==
  /\ queues = InitQueues
  /\ tasks = <<>>
  /\ recentWrites = InitRecentWrites
  /\ now = 0
  /\ guardRet = NoCall
  /\ oldCss = BadText
  /\ newCss = BadText
  /\ changes = <<>>
  /\ diffPc = "ready"
  /\ sheets = <<>>
  /\ loading = {}
  /\ browser = InitBrowser
  /\ edits = 0
  /\ polling = "off"
  /\ cycles = <<>>
  /\ pollLog = NoLog
  /\ lastAccepted = InitAccepted
  /\ patched = InitPatched
  /\ lastEvent = NoEvent
  /\ disk = NoDisk
  /\ temps = NoTemps
  /\ writers = NoWriters
  /\ patchRes = NoPatch
  /\ boot = NoBoot
  /\ cdp = NoClient
  /\ fresh = NoFresh

NextVanish ==
  \/ PollFire
  \/ \E c \in CycleIds, ok \in BOOLEAN : PollFresh(c, ok)
  \/ \E c \in CycleIds : HCModule(c)
  \/ \E c \in CycleIds, source \in Disk \cup {NoPath} : HCSourceMap(c, source)
  \/ \E c \in CycleIds, ok \in BOOLEAN : TaskDone(c, ok)
  \/ \E id \in StyleSheetIds : SheetAdded(id)
  \/ \E id \in StyleSheetIds, ok \in BOOLEAN : SheetLoaded(id, ok)
  \/ \E id \in StyleSheetIds : NextEdit(id)
  \/ \E id \in StyleSheetIds : SheetGone(id)
  \/ StartPolling
  \/ Sweep
  \/ ATick

SpecVanish == InitSpecVanish /\ [][NextVanish]_vars
\* --- SpecStop: the agent with SIGINT or SIGTERM once polling has started

\* cleanup() up to the await in stop() that waits: clearInterval,
\* loopGuard.destroy(), sourceMapResolver.destroy(), closePollSession() with
\* no poll session to close, and the call of cdp.close()
Stop ==
  /\ polling = "on"
  /\ polling' = "cleared"
  /\ recentWrites' = destroy(recentWrites)
  /\ pollLog' = NoLog
  /\ UNCHANGED <<now, guardRet, queueVars, diffVars, sheets, loading, browser, edits,
                 cycles, lastAccepted, patched, lastEvent, patchVars, clientVars>>

\* cdp.close() has answered: stop() returns and cleanup() calls process.exit(0)
Exit ==
  /\ polling = "cleared"
  /\ polling' = "exited"
  /\ pollLog' = NoLog
  /\ UNCHANGED <<guardVars, queueVars, diffVars, sheets, loading, browser, edits,
                 cycles, lastAccepted, patched, lastEvent, patchVars, clientVars>>

\* the process has not exited
Running == polling # "exited"

InitSpecStop ==
  /\ queues = InitQueues
  /\ tasks = <<>>
  /\ recentWrites = InitRecentWrites
  /\ now = 0
  /\ guardRet = NoCall
  /\ oldCss = BadText
  /\ newCss = BadText
  /\ changes = <<>>
  /\ diffPc = "ready"
  /\ sheets = <<>>
  /\ loading = {}
  /\ browser = InitBrowser
  /\ edits = 0
  /\ polling = "off"
  /\ cycles = <<>>
  /\ pollLog = NoLog
  /\ lastAccepted = InitAccepted
  /\ patched = InitPatched
  /\ lastEvent = NoEvent
  /\ disk = NoDisk
  /\ temps = NoTemps
  /\ writers = NoWriters
  /\ patchRes = NoPatch
  /\ boot = NoBoot
  /\ cdp = NoClient
  /\ fresh = NoFresh

NextStop ==
  \/ Running /\ PollFire
  \/ Running /\ \E c \in CycleIds, ok \in BOOLEAN : PollFresh(c, ok)
  \/ Running /\ \E c \in CycleIds : HCModule(c)
  \/ Running /\ \E c \in CycleIds, source \in Disk \cup {NoPath} : HCSourceMap(c, source)
  \/ Running /\ \E c \in CycleIds, ok \in BOOLEAN : TaskDone(c, ok)
  \/ Running /\ \E id \in StyleSheetIds : SheetAdded(id)
  \/ Running /\ \E id \in StyleSheetIds, ok \in BOOLEAN : SheetLoaded(id, ok)
  \/ Running /\ \E id \in StyleSheetIds : NextEdit(id)
  \/ StartPolling
  \/ Stop
  \/ Exit

SpecStop == InitSpecStop /\ [][NextStop]_vars
\* --- SpecResolve: URLResolver.resolve on any URL

\* the URLs of stylesheets: as a path, under the dev server, or as a file URL;
\* in the folders the default mappings know and in others; of files that
\* exist and of files that do not
ResolveURLs ==
  {base \o folder \o file :
     base \in {"", DevServerBase, "file://"},
     folder \in {"/", "/src/", "/assets/", "/static/", "/styles/", "/css/",
                 "/_next/static/css/", "/app/src/", "/app/.next/static/css/"},
     file \in {"app.css", "gone.css", "app/layout.css", "Menu.module.scss"}}
    \cup {NoPath}

\* urlResolver.resolve(url) is called and returns
Resolve(url) ==
  /\ patchRes.op = "none"
  /\ patchRes' = [op |-> "resolve", url |-> url, ret |-> resolve(url)]
  /\ UNCHANGED <<sheets, guardVars, queueVars, diffVars, disk, temps, writers, loading,
                 browser, edits, polling, cycles, pollLog, lastAccepted, patched,
                 lastEvent, clientVars>>

InitSpecResolve ==
  /\ queues = InitQueues
  /\ tasks = <<>>
  /\ recentWrites = InitRecentWrites
  /\ now = 0
  /\ guardRet = NoCall
  /\ oldCss = BadText
  /\ newCss = BadText
  /\ changes = <<>>
  /\ diffPc = "ready"
  /\ sheets = <<>>
  /\ loading = {}
  /\ browser = InitBrowser
  /\ edits = 0
  /\ polling = "off"
  /\ cycles = <<>>
  /\ pollLog = NoLog
  /\ lastAccepted = InitAccepted
  /\ patched = InitPatched
  /\ lastEvent = NoEvent
  /\ disk = NoDisk
  /\ temps = NoTemps
  /\ writers = NoWriters
  /\ patchRes = NoPatch
  /\ boot = NoBoot
  /\ cdp = NoClient
  /\ fresh = NoFresh

NextResolve == \E url \in ResolveURLs : Resolve(url)

SpecResolve == InitSpecResolve /\ [][NextResolve]_vars
\* --- SpecConnect: CDPClient.connect, with callers that register callbacks
\* before, during and after it

\* a caller registers a callback that has not been registered
Register(event, callback) ==
  /\ callback \notin patchRes.registered
  /\ cdp' = On(cdp, event, callback)
  /\ patchRes' = [patchRes EXCEPT !.registered = @ \cup {callback}]
  /\ UNCHANGED <<boot, fresh, sheets, guardVars, queueVars, diffVars, disk, temps, writers,
                 agentRest>>

Connect ==
  /\ cdp.pc = "new"
  /\ cdp' = ConnectCalled(cdp)
  /\ UNCHANGED <<boot, fresh, sheets, guardVars, queueVars, diffVars, patchVars, agentRest>>

Listed(found) ==
  /\ cdp.pc = "list"
  /\ cdp' = ConnectListed(cdp, found)
  /\ UNCHANGED <<boot, fresh, sheets, guardVars, queueVars, diffVars, patchVars, agentRest>>

Opened(ok) ==
  /\ cdp.pc = "open"
  /\ cdp' = ConnectOpened(cdp, ok)
  /\ UNCHANGED <<boot, fresh, sheets, guardVars, queueVars, diffVars, patchVars, agentRest>>

Enabled(ok) ==
  /\ cdp.pc \in {"DOM", "CSS", "Page"}
  /\ cdp' = ConnectEnabled(cdp, ok)
  /\ UNCHANGED <<boot, fresh, sheets, guardVars, queueVars, diffVars, patchVars, agentRest>>

InitSpecConnect ==
  /\ queues = InitQueues
  /\ tasks = <<>>
  /\ recentWrites = InitRecentWrites
  /\ now = 0
  /\ guardRet = NoCall
  /\ oldCss = BadText
  /\ newCss = BadText
  /\ changes = <<>>
  /\ diffPc = "ready"
  /\ patchRes = [op |-> "callbacks", registered |-> {}]
  /\ sheets = <<>>
  /\ loading = {}
  /\ browser = InitBrowser
  /\ edits = 0
  /\ polling = "off"
  /\ cycles = <<>>
  /\ pollLog = NoLog
  /\ lastAccepted = InitAccepted
  /\ patched = InitPatched
  /\ lastEvent = NoEvent
  /\ disk = NoDisk
  /\ temps = NoTemps
  /\ writers = NoWriters
  /\ boot = NoBoot
  /\ cdp = NoClient
  /\ fresh = NoFresh

NextConnect ==
  \/ \E event \in {"styleSheetAdded", "styleSheetChanged"}, callback \in CallbackIds :
       Register(event, callback)
  \/ Connect
  \/ \E found \in BOOLEAN : Listed(found)
  \/ \E ok \in BOOLEAN : Opened(ok)
  \/ \E ok \in BOOLEAN : Enabled(ok)

SpecConnect == InitSpecConnect /\ [][NextConnect]_vars
\* --- SpecStart: CSSyncAgent.start() with the connect of the client and the
\* styleSheetAdded events of the page

\* the handlers of the agent, as callbacks
AddedHandler == 1
ChangedHandler == 2

\* start() goes on and notes the steps it takes
Step(b, pc, steps) == [b EXCEPT !.pc = pc, !.steps = @ \o steps]

\* start() up to its first await: both handlers are handed to the client,
\* then connect() is called
StartCall ==
  /\ boot.pc = "new"
  /\ cdp' = ConnectCalled(On(On(cdp, "styleSheetAdded", AddedHandler),
                             "styleSheetChanged", ChangedHandler))
  /\ boot' = Step(boot, "connect", <<"subscribe", "connect">>)
  /\ UNCHANGED <<fresh, sheets, guardVars, queueVars, diffVars, patchVars, agentRest>>

\* start() after connect(): on true it goes on to clear the registry and to
\* reload the page, on an error it logs and calls process.exit(1)
MutStartConnected(b, ok) ==
  Step(b, "reload", <<"connected", "clear", "reload">>)

StartConnected(b, ok) ==
  IF ok THEN Step(b, "reload", <<"connected", "clear", "reload">>)
  ELSE Step(b, "exited", <<"exit">>)

\* connect() has returned or thrown
Connected ==
  /\ boot.pc = "connect"
  /\ cdp.pc \in {"connected", "failed"}
  /\ boot' = StartConnected(boot, cdp.pc = "connected")
  /\ sheets' = IF StartConnected(boot, cdp.pc = "connected").pc = "reload"
                 THEN clear(sheets) ELSE sheets
  /\ UNCHANGED <<cdp, fresh, guardVars, queueVars, diffVars, patchVars, agentRest>>

\* Page.reload() has answered: start() waits 3 s; on an error start() throws
\* and its caller calls process.exit(1)
Reloaded(ok) ==
  /\ boot.pc = "reload"
  /\ boot' = IF ok THEN Step(boot, "wait", <<"wait">>) ELSE Step(boot, "exited", <<"exit">>)
  /\ UNCHANGED <<cdp, fresh, sheets, guardVars, queueVars, diffVars, patchVars, agentRest>>

\* the 3 s are over: detectViteStyleSheets() is called and awaits
\* matchViteStyleSheets
Waited ==
  /\ boot.pc = "wait"
  /\ boot' = Step(boot, "vite", <<"detectVite">>)
  /\ UNCHANGED <<cdp, fresh, sheets, guardVars, queueVars, diffVars, patchVars, agentRest>>

\* matchViteStyleSheets has answered, with a match for app.css or without:
\* the match is noted, and detectWebpackStyleSheets() is called
ViteDetected(matched) ==
  /\ boot.pc = "vite"
  /\ sheets' = IF matched /\ Truthy(getPreviousText(sheets, "s1"))
                 THEN setViteDevId(sheets, "s1", "/app/src/app.css") ELSE sheets
  /\ boot' = Step(boot, "webpack", <<"detectWebpack">>)
  /\ UNCHANGED <<cdp, fresh, guardVars, queueVars, diffVars, patchVars, agentRest>>

\* detectWebpackStyleSheets() is through, with an inline source map in
\* layout.css or without; then printPageInfo() and startPolling()
WebpackDetected(found) ==
  /\ boot.pc = "webpack"
  /\ sheets' = IF /\ found /\ Truthy(getPreviousText(sheets, "s2"))
                  /\ getViteDevId(sheets, "s2") = NoPath
                  /\ getOriginalSource(sheets, "s2") = NoPath
                 THEN setOriginalSource(sheets, "s2", "/app/src/Menu.module.scss")
                 ELSE sheets
  /\ boot' = Step(boot, "started", <<"startPolling">>)
  /\ polling' = "on"
  /\ UNCHANGED <<cdp, fresh, guardVars, queueVars, diffVars, patchVars, loading, browser,
                 edits, cycles, pollLog, lastAccepted, patched, lastEvent>>

\* the page reports stylesheets to the handler of the agent; start() goes on
\* after connect() in the turn in which connect() returns or throws
Listening ==
  /\ boot.pc # "exited"
  /\ ~(boot.pc = "connect" /\ cdp.pc \in {"connected", "failed"})
  /\ AddedHandler \in CallbacksOf(cdp.attached)
  /\ \E i \in 1..Len(cdp.enabled) : cdp.enabled[i] = "CSS"

InitSpecStart ==
  /\ queues = InitQueues
  /\ tasks = <<>>
  /\ recentWrites = InitRecentWrites
  /\ now = 0
  /\ guardRet = NoCall
  /\ oldCss = BadText
  /\ newCss = BadText
  /\ changes = <<>>
  /\ diffPc = "ready"
  /\ sheets = <<>>
  /\ loading = {}
  /\ browser = InitBrowser
  /\ edits = 0
  /\ polling = "off"
  /\ cycles = <<>>
  /\ pollLog = NoLog
  /\ lastAccepted = InitAccepted
  /\ patched = InitPatched
  /\ lastEvent = NoEvent
  /\ disk = NoDisk
  /\ temps = NoTemps
  /\ writers = NoWriters
  /\ patchRes = NoPatch
  /\ boot = NoBoot
  /\ cdp = NoClient
  /\ fresh = NoFresh

NextStart ==
  \/ StartCall
  \/ \E found \in BOOLEAN : Listed(found)
  \/ \E ok \in BOOLEAN : Opened(ok)
  \/ \E ok \in BOOLEAN : Enabled(ok)
  \/ Connected
  \/ \E ok \in BOOLEAN : Reloaded(ok)
  \/ Waited
  \/ \E matched \in BOOLEAN : ViteDetected(matched)
  \/ \E found \in BOOLEAN : WebpackDetected(found)
  \/ Listening /\ \E id \in StyleSheetIds : SheetAdded(id)
  \/ Listening /\ \E id \in StyleSheetIds, ok \in BOOLEAN : SheetLoaded(id, ok)

SpecStart == InitSpecStart /\ [][NextStart]_vars
\* --- SpecFresh: CDPClient.getAllFreshStyleSheets, called again and again,
\* on a page that is edited meanwhile

FreshCall ==
  /\ fresh.pc \in {"idle", "returned"}
  /\ fresh' = FreshCalled
  /\ UNCHANGED <<boot, cdp, sheets, guardVars, queueVars, diffVars, patchVars, agentRest>>

FreshList(outcome) ==
  /\ fresh.pc = "list"
  /\ fresh' = FreshListed(fresh, outcome)
  /\ UNCHANGED <<boot, cdp, sheets, guardVars, queueVars, diffVars, patchVars, agentRest>>

FreshOpen(ok) ==
  /\ fresh.pc = "open"
  /\ fresh' = FreshOpened(fresh, ok)
  /\ UNCHANGED <<boot, cdp, sheets, guardVars, queueVars, diffVars, patchVars, agentRest>>

FreshEnable(ok) ==
  /\ fresh.pc \in {"DOM", "CSS"}
  /\ fresh' = FreshEnabled(fresh, ok)
  /\ UNCHANGED <<boot, cdp, sheets, guardVars, queueVars, diffVars, patchVars, agentRest>>

\* the session reports a stylesheet of the page, once each: from the call of
\* CSS.enable() until the session is closed
FreshHeader(styleSheetId) ==
  /\ fresh.pc \in {"CSS", "wait", "texts"}
  /\ browser[styleSheetId] # NoText
  /\ \A i \in 1..Len(fresh.freshSheets) : fresh.freshSheets[i] # styleSheetId
  /\ fresh' = FreshAdded(fresh, styleSheetId)
  /\ UNCHANGED <<boot, cdp, sheets, guardVars, queueVars, diffVars, patchVars, agentRest>>

\* the timer of 200 ms fires: the loop starts
FreshWaited ==
  /\ fresh.pc = "wait"
  /\ fresh' = FreshLoop(fresh)
  /\ UNCHANGED <<boot, cdp, sheets, guardVars, queueVars, diffVars, patchVars, agentRest>>

\* CSS.getStyleSheetText answers with the text the page has now, or fails
FreshFetch(ok) ==
  /\ fresh.pc = "texts"
  /\ fresh' = FreshText(fresh, ok, browser[fresh.freshSheets[fresh.at + 1]])
  /\ UNCHANGED <<boot, cdp, sheets, guardVars, queueVars, diffVars, patchVars, agentRest>>

FreshClose(ok) ==
  /\ fresh.pc = "close"
  /\ fresh' = FreshClosed(fresh, ok)
  /\ UNCHANGED <<boot, cdp, sheets, guardVars, queueVars, diffVars, patchVars, agentRest>>

FreshCatchClose(ok) ==
  /\ fresh.pc = "catchClose"
  /\ fresh' = FreshCatchClosed(fresh, ok)
  /\ UNCHANGED <<boot, cdp, sheets, guardVars, queueVars, diffVars, patchVars, agentRest>>

InitSpecFresh ==
  /\ queues = InitQueues
  /\ tasks = <<>>
  /\ recentWrites = InitRecentWrites
  /\ now = 0
  /\ guardRet = NoCall
  /\ oldCss = BadText
  /\ newCss = BadText
  /\ changes = <<>>
  /\ diffPc = "ready"
  /\ sheets = <<>>
  /\ loading = {}
  /\ browser = InitBrowser
  /\ edits = 0
  /\ polling = "off"
  /\ cycles = <<>>
  /\ pollLog = NoLog
  /\ lastAccepted = InitAccepted
  /\ patched = InitPatched
  /\ lastEvent = NoEvent
  /\ disk = NoDisk
  /\ temps = NoTemps
  /\ writers = NoWriters
  /\ patchRes = NoPatch
  /\ boot = NoBoot
  /\ cdp = NoClient
  /\ fresh = NoFresh

NextFresh ==
  \/ FreshCall
  \/ \E outcome \in {"found", "missing", "error"} : FreshList(outcome)
  \/ \E ok \in BOOLEAN : FreshOpen(ok)
  \/ \E ok \in BOOLEAN : FreshEnable(ok)
  \/ \E styleSheetId \in StyleSheetIds : FreshHeader(styleSheetId)
  \/ FreshWaited
  \/ \E ok \in BOOLEAN : FreshFetch(ok)
  \/ \E ok \in BOOLEAN : FreshClose(ok)
  \/ \E ok \in BOOLEAN : FreshCatchClose(ok)
  \/ \E id \in StyleSheetIds : \E text \in PageTexts(id) : BrowserEdit(id, text)

SpecFresh == InitSpecFresh /\ [][NextFresh]_vars
\* --- SpecExpiry: the calls of the loop guard on two keys while time passes,
\* each recorded with the records the guard held when it was made

\* what guardRet keeps of a call of the guard: the operation, its key, what
\* it returned, and Date.now() and the records when it was made
Guarded(op, key, val) ==
  [op |-> op, key |-> key, val |-> val, at |-> now, before |-> recentWrites]

ERegisterWrite(filePath, content) ==
  /\ recentWrites' = registerWrite(recentWrites, filePath, content)
  /\ guardRet' = Guarded("registerWrite", filePath, FALSE)
  /\ UNCHANGED <<now, queueVars, diffVars, agentVars, patchVars, clientVars>>

ERegisterStyleSheetWrite(styleSheetId, content) ==
  /\ recentWrites' = registerStyleSheetWrite(recentWrites, styleSheetId, content)
  /\ guardRet' = Guarded("registerWrite", SheetKey(styleSheetId), FALSE)
  /\ UNCHANGED <<now, queueVars, diffVars, agentVars, patchVars, clientVars>>

EShouldIgnore(filePath, content) ==
  /\ recentWrites' = shouldIgnoreWrites(recentWrites, filePath)
  /\ guardRet' = Guarded("shouldIgnore", filePath,
                         shouldIgnoreValue(recentWrites, filePath, content))
  /\ UNCHANGED <<now, queueVars, diffVars, agentVars, patchVars, clientVars>>

EShouldIgnoreStyleSheet(styleSheetId, content) ==
  /\ recentWrites' = shouldIgnoreStyleSheetWrites(recentWrites, styleSheetId)
  /\ guardRet' = Guarded("shouldIgnore", SheetKey(styleSheetId),
                         shouldIgnoreStyleSheetValue(recentWrites, styleSheetId, content))
  /\ UNCHANGED <<now, queueVars, diffVars, agentVars, patchVars, clientVars>>

\* the interval of the constructor fires
ECleanup ==
  /\ recentWrites' = cleanup(recentWrites)
  /\ guardRet' = Guarded("cleanup", NoPath, FALSE)
  /\ UNCHANGED <<now, queueVars, diffVars, agentVars, patchVars, clientVars>>

EDestroy ==
  /\ recentWrites' = destroy(recentWrites)
  /\ guardRet' = Guarded("destroy", NoPath, FALSE)
  /\ UNCHANGED <<now, queueVars, diffVars, agentVars, patchVars, clientVars>>

\* time passes: half a TTL, or just more than a TTL
ETick ==
  /\ \E d \in {TTL \div 2, TTL + 1} : Tick(d)
  /\ UNCHANGED <<recentWrites, guardRet, queueVars, diffVars, agentVars, patchVars,
                 clientVars>>

InitSpecExpiry ==
  /\ queues = InitQueues
  /\ tasks = <<>>
  /\ recentWrites = InitRecentWrites
  /\ now = 0
  /\ guardRet = NoCall
  /\ oldCss = BadText
  /\ newCss = BadText
  /\ changes = <<>>
  /\ diffPc = "ready"
  /\ sheets = <<>>
  /\ loading = {}
  /\ browser = InitBrowser
  /\ edits = 0
  /\ polling = "off"
  /\ cycles = <<>>
  /\ pollLog = NoLog
  /\ lastAccepted = InitAccepted
  /\ patched = InitPatched
  /\ lastEvent = NoEvent
  /\ disk = NoDisk
  /\ temps = NoTemps
  /\ writers = NoWriters
  /\ patchRes = NoPatch
  /\ boot = NoBoot
  /\ cdp = NoClient
  /\ fresh = NoFresh

NextExpiry ==
  \/ \E filePath \in GuardFiles, content \in Contents : ERegisterWrite(filePath, content)
  \/ \E id \in GuardSheets, content \in Contents : ERegisterStyleSheetWrite(id, content)
  \/ \E filePath \in GuardFiles, content \in Contents : EShouldIgnore(filePath, content)
  \/ \E id \in GuardSheets, content \in Contents : EShouldIgnoreStyleSheet(id, content)
  \/ ECleanup
  \/ EDestroy
  \/ ETick

SpecExpiry == InitSpecExpiry /\ [][NextExpiry]_vars
\* --- SpecNest: findChangedDeclarations on texts whose rules lie in other
\* rules

\* a declaration of a rule that lies in the rules of ancestors, outermost
\* first; decl.parent.selector is the selector of the innermost rule
NestedDecl(ancestors, sel, prop, value) ==
  [ancestors |-> ancestors, selector |-> sel, prop |-> prop, value |-> value,
   important |-> FALSE]

\* walkRulesDeep's fullSelector of the innermost of nested rules whose
\* selectors hold no comma
RECURSIVE FullSelectorOf(_, _)
FullSelectorOf(parentSelector, selectors) ==
  IF selectors = <<>> THEN parentSelector
  ELSE FullSelectorOf(FullSelector(selectors[1], parentSelector), Tail(selectors))

\* declarations of `color` in the rules .a and &-a, at the top and inside
\* the rules .x and .y
NestDecls ==
  {NestedDecl(ancestors, sel, "color", value) :
     ancestors \in {<<>>, <<".x">>, <<".y">>}, sel \in {".a"}, value \in {"red", "tan"}}
    \cup {NestedDecl(<<".x">>, "&-a", "color", value) : value \in {"red", "tan"}}

NestTexts(n) == {Text(decls, 0) : decls \in [1..n -> NestDecls]}

InitSpecNest ==
  /\ queues = InitQueues
  /\ tasks = <<>>
  /\ recentWrites = InitRecentWrites
  /\ now = 0
  /\ guardRet = NoCall
  /\ \E n \in 0..MaxDecls, k \in 0..MaxDecls :
       /\ k <= n
       /\ oldCss \in NestTexts(k)
       /\ newCss \in NestTexts(n - k)
  /\ changes = <<>>
  /\ diffPc = "ready"
  /\ sheets = <<>>
  /\ loading = {}
  /\ browser = InitBrowser
  /\ edits = 0
  /\ polling = "off"
  /\ cycles = <<>>
  /\ pollLog = NoLog
  /\ lastAccepted = InitAccepted
  /\ patched = InitPatched
  /\ lastEvent = NoEvent
  /\ disk = NoDisk
  /\ temps = NoTemps
  /\ writers = NoWriters
  /\ patchRes = NoPatch
  /\ boot = NoBoot
  /\ cdp = NoClient
  /\ fresh = NoFresh

NextNest == DiffOldNew \/ DiffSelf

SpecNest == InitSpecNest /\ [][NextNest]_vars
\* --- SpecShared: the patch tasks of several handleStyleSheetChange calls
\* that patch the same files, through the file queue, each reading its file,
\* writing the temporary file and renaming it

\* the change of `color` from red to tan in the rule of a selector
SharedChange(selector) ==
  [type |-> "change", selector |-> selector, prop |-> "color",
   oldValue |-> "red", newValue |-> "tan"]

\* the changes of the calls: each call changes one rule of a file, or asks
\* for a rule that app.css does not have
SharedChanges(filePath) ==
  IF IsScss(filePath)
    THEN {<<SharedChange(".item")>>, <<SharedChange(".nav")>>}
    ELSE {<<SharedChange(".a")>>, <<SharedChange(".b")>>, <<SharedChange(".gone")>>}

\* handleStyleSheetChange calls that reach the file queue
MaxCalls == 3

\* the patch task of handleStyleSheetChange before patchMultiple has read
\* the file
PatchTask(changeList) == [kind |-> "patch", changes |-> changeList, pc |-> "readFile"]

\* a call reaches `await this.fileQueue.enqueue(localPath, ...)` with changes
\* that no call before it had
SEnqueue(filePath, changeList) ==
  /\ Len(tasks) < MaxCalls
  /\ \A t \in TaskIds : tasks[t].path = filePath => tasks[t].body.changes # changeList
  /\ Enqueue(filePath, PatchTask(changeList))
  /\ UNCHANGED <<guardVars, diffVars, sheets, disk, temps, writers, patchRes, agentRest, clientVars>>

\* the task is called: patchMultiple finds the file and awaits readFile
SStart(t) ==
  /\ StartTask(t)
  /\ UNCHANGED <<queues, guardVars, diffVars, sheets, disk, temps, writers, patchRes,
                 agentRest, clientVars>>

\* readFile answers with the content the file has now; patchMultiple applies
\* the changes to it and, when one succeeded, calls writeFile, which names
\* its temporary file and awaits fs writeFile; otherwise it returns and the
\* task is through
SRead(t) ==
  /\ tasks[t].st = "running"
  /\ tasks[t].body.pc = "readFile"
  /\ LET r == patchMultiple(disk[tasks[t].path], tasks[t].body.changes,
                            IsScss(tasks[t].path))
     IN tasks' = [tasks EXCEPT
                    ![t].body = [kind |-> "patch", changes |-> tasks[t].body.changes,
                                 pc |-> IF r.write THEN "writeFile" ELSE "returned",
                                 success |-> r.success, content |-> r.content,
                                 tempPath |-> tempPath(tasks[t].path, now)],
                    ![t].st = IF r.write THEN "running" ELSE "fulfilled"]
  /\ UNCHANGED <<queues, guardVars, diffVars, sheets, disk, temps, writers, patchRes,
                 agentRest, clientVars>>

\* fs writeFile has written the content to the temporary file, created or
\* truncated; rename is awaited
STemp(t) ==
  /\ tasks[t].st = "running"
  /\ tasks[t].body.pc = "writeFile"
  /\ temps' = [temps EXCEPT ![tasks[t].body.tempPath] = tasks[t].body.content]
  /\ tasks' = [tasks EXCEPT ![t].body.pc = "rename"]
  /\ UNCHANGED <<queues, guardVars, diffVars, sheets, disk, writers, patchRes, agentRest, clientVars>>

\* rename has moved the temporary file over the file, or has failed because
\* no file has that name any more, which patchMultiple catches; the task is
\* through
SRename(t) ==
  /\ tasks[t].st = "running"
  /\ tasks[t].body.pc = "rename"
  /\ IF temps[tasks[t].body.tempPath].exists
       THEN /\ disk' = [disk EXCEPT ![tasks[t].path] = temps[tasks[t].body.tempPath]]
            /\ temps' = [temps EXCEPT ![tasks[t].body.tempPath] = NoFile]
       ELSE UNCHANGED <<disk, temps, clientVars>>
  /\ tasks' = [tasks EXCEPT ![t].body.pc = "returned", ![t].st = "fulfilled"]
  /\ UNCHANGED <<queues, guardVars, diffVars, sheets, writers, patchRes, agentRest, clientVars>>

\* enqueue resumes and handleStyleSheetChange goes on
SReturn(t) ==
  /\ EnqueueReturn(t)
  /\ UNCHANGED <<guardVars, diffVars, sheets, disk, temps, writers, patchRes, agentRest, clientVars>>

\* a ms passes
STick ==
  /\ now < MaxStamp
  /\ now' = now + 1
  /\ UNCHANGED <<recentWrites, guardRet, queueVars, diffVars, sheets, disk, temps,
                 writers, patchRes, agentRest, clientVars>>

InitSpecShared ==
  /\ queues = InitQueues
  /\ tasks = <<>>
  /\ recentWrites = InitRecentWrites
  /\ now = 0
  /\ guardRet = NoCall
  /\ oldCss = BadText
  /\ newCss = BadText
  /\ changes = <<>>
  /\ diffPc = "ready"
  /\ sheets = <<>>
  /\ loading = {}
  /\ browser = InitBrowser
  /\ edits = 0
  /\ polling = "off"
  /\ cycles = <<>>
  /\ pollLog = NoLog
  /\ lastAccepted = InitAccepted
  /\ patched = InitPatched
  /\ lastEvent = NoEvent
  /\ temps = NoTemps
  /\ writers = NoWriters
  /\ patchRes = NoPatch
  /\ boot = NoBoot
  /\ cdp = NoClient
  /\ fresh = NoFresh
  /\ disk = [p \in PatchPaths |-> WriteBefore(p)]

NextShared ==
  \/ \E filePath \in PatchPaths : \E changeList \in SharedChanges(filePath) :
       SEnqueue(filePath, changeList)
  \/ \E t \in TaskIds : SStart(t)
  \/ \E t \in TaskIds : SRead(t)
  \/ \E t \in TaskIds : STemp(t)
  \/ \E t \in TaskIds : SRename(t)
  \/ \E t \in TaskIds : SReturn(t)
  \/ STick

SpecShared == InitSpecShared /\ [][NextShared]_vars
\* --- SpecTwins: the poll callback on a page whose two stylesheets begin
\* with the same rule, so that their texts have the same leading 100
\* characters

\* the texts of the two stylesheets: app.css as before, layout.css with the
\* first rule of app.css and a second rule of its own
TwinText(styleSheetId, tailValue) ==
  IF styleSheetId = "s1" THEN AppText("red", tailValue, 0)
  ELSE Text(<<Decl(".btn", "color", "red", FALSE),
              Decl(".card", "color", tailValue, FALSE)>>, 0)

\* the texts the stylesheet can have on this page
TwinTexts(styleSheetId) == {TwinText(styleSheetId, v) : v \in {"red", "tan"}}

\* the registry once both stylesheets were added and their texts loaded
TwinSheets ==
  updateText(register(updateText(register(<<>>, Header("s1")),
                                 "s1", TwinText("s1", "red")),
                      Header("s2")),
             "s2", TwinText("s2", "red"))

InitSpecTwins ==
  /\ queues = InitQueues
  /\ tasks = <<>>
  /\ recentWrites = InitRecentWrites
  /\ now = 0
  /\ guardRet = NoCall
  /\ oldCss = BadText
  /\ newCss = BadText
  /\ changes = <<>>
  /\ diffPc = "ready"
  /\ sheets = TwinSheets
  /\ browser = [id \in StyleSheetIds |-> TwinText(id, "red")]
  /\ polling = "on"
  /\ loading = {}
  /\ edits = 0
  /\ cycles = <<>>
  /\ pollLog = NoLog
  /\ lastAccepted = InitAccepted
  /\ patched = InitPatched
  /\ lastEvent = NoEvent
  /\ disk = NoDisk
  /\ temps = NoTemps
  /\ writers = NoWriters
  /\ patchRes = NoPatch
  /\ boot = NoBoot
  /\ cdp = NoClient
  /\ fresh = NoFresh

NextTwins ==
  \/ PollFire
  \/ \E c \in CycleIds, ok \in BOOLEAN : PollFresh(c, ok)
  \/ \E c \in CycleIds : HCModule(c)
  \/ \E c \in CycleIds, source \in Disk \cup {NoPath} : HCSourceMap(c, source)
  \/ \E c \in CycleIds, ok \in BOOLEAN : TaskDone(c, ok)
  \/ \E id \in StyleSheetIds : \E text \in TwinTexts(id) : BrowserEdit(id, text)

SpecTwins == InitSpecTwins /\ [][NextTwins]_vars

\* --- SpecLate: the styleSheetAdded handler and the calls that change the
\* registry while the handler awaits the text, each step with the registry
\* it found

\* the styleSheetAdded handler up to its await
LAdded(id) ==
  /\ SheetIndex(sheets, id) = 0
  /\ sheets' = register(sheets, Header(id))
  /\ loading' = loading \cup {id}
  /\ patchRes' = [op |-> "added", styleSheetId |-> id, before |-> sheets, ret |-> NoSheet]
  /\ UNCHANGED <<now, recentWrites, guardRet, queueVars, diffVars, disk, temps, writers,
                 browser, edits, polling, cycles, pollLog, lastAccepted, patched,
                 lastEvent, clientVars>>

\* getStyleSheetText answers the handler, which calls registry.updateText,
\* or throws, which the handler catches
LLoaded(id, ok) ==
  /\ id \in loading
  /\ loading' = loading \ {id}
  /\ sheets' = IF ok THEN updateText(sheets, id, browser[id]) ELSE sheets
  /\ patchRes' = [op |-> "loaded", styleSheetId |-> id, before |-> sheets,
                  ret |-> NoSheet, loaded |-> ok]
  /\ UNCHANGED <<now, recentWrites, guardRet, queueVars, diffVars, disk, temps, writers,
                 browser, edits, polling, cycles, pollLog, lastAccepted, patched,
                 lastEvent, clientVars>>

InitSpecLate ==
  /\ queues = InitQueues
  /\ tasks = <<>>
  /\ recentWrites = InitRecentWrites
  /\ now = 0
  /\ guardRet = NoCall
  /\ oldCss = BadText
  /\ newCss = BadText
  /\ changes = <<>>
  /\ diffPc = "ready"
  /\ sheets = <<>>
  /\ loading = {}
  /\ browser = InitBrowser
  /\ edits = 0
  /\ polling = "off"
  /\ cycles = <<>>
  /\ pollLog = NoLog
  /\ lastAccepted = InitAccepted
  /\ patched = InitPatched
  /\ lastEvent = NoEvent
  /\ disk = NoDisk
  /\ temps = NoTemps
  /\ writers = NoWriters
  /\ patchRes = NoPatch
  /\ boot = NoBoot
  /\ cdp = NoClient
  /\ fresh = NoFresh

NextLate ==
  \/ \E id \in StyleSheetIds : LAdded(id)
  \/ \E id \in StyleSheetIds, ok \in BOOLEAN : LLoaded(id, ok)
  \/ \E styleSheetId \in StyleSheetIds, text \in {BtnRed, BtnBlue} :
       RUpdateText(styleSheetId, text)
  \/ \E styleSheetId \in StyleSheetIds : RSetViteDevId(styleSheetId, "/app/src/app.css")
  \/ \E styleSheetId \in StyleSheetIds :
       RSetOriginalSource(styleSheetId, "/app/src/Menu.module.scss")
  \/ \E styleSheetId \in StyleSheetIds : RRemove(styleSheetId)
  \/ RClear

SpecLate == InitSpecLate /\ [][NextLate]_vars

\* --- SpecModule: handleStyleSheetChange on a stylesheet that has no file or
\* whose file lies under .next/: handleCSSModuleChanges and what follows it

\* the patches of handleCSSModuleChanges, file by file in the order of
\* changesByFile: the files after them, the changes that succeeded, and the
\* files saved with at least one of them
RECURSIVE ModulePatches(_, _)
ModulePatches(files, groups) ==
  IF groups = <<>> THEN [files |-> files, success |-> 0, saved |-> <<>>]
  ELSE LET r == patchMultiple(files[groups[1].filePath], groups[1].changes,
                              IsScss(groups[1].filePath))
           rest == ModulePatches(IF r.write
                                   THEN [files EXCEPT ![groups[1].filePath] = r.content]
                                   ELSE files,
                                 Tail(groups))
       IN [files |-> rest.files, success |-> r.success + rest.success,
           saved |-> IF r.success > 0 THEN <<groups[1].filePath>> \o rest.saved
                     ELSE rest.saved]

\* registerStyleSheetWrite and registerWrite after each file saved
RECURSIVE ModuleWrites(_, _, _, _)
ModuleWrites(writes, styleSheetId, saved, newText) ==
  IF saved = <<>> THEN writes
  ELSE ModuleWrites(registerWrite(registerStyleSheetWrite(writes, styleSheetId, newText),
                                  saved[1], newText),
                    styleSheetId, Tail(saved), newText)

\* handleStyleSheetChange from `if (!localPath || isNextJSBundle)` on:
\* handleCSSModuleChanges returns true when changesByFile is not empty, and
\* the call returns; otherwise without a localPath the stylesheet is logged
\* as unmapped and the call returns, and with one the call goes on to patch
\* localPath
ModuleBranch(reg, styleSheetId, chg, files) ==
  LET localPath == LocalPath(reg, styleSheetId)
      groups == ChangesByFile(chg)
      patches == ModulePatches(files, groups)
  IN IF groups # <<>>
       THEN [localPath |-> localPath, resolved |-> TRUE, next |-> "return",
             files |-> patches.files, success |-> patches.success,
             saved |-> patches.saved]
     ELSE [localPath |-> localPath, resolved |-> FALSE,
           next |-> IF localPath = NoPath THEN "unmapped" ELSE "patch",
           files |-> files, success |-> 0, saved |-> <<>>]

\* the call, for the changes the differ has found, up to its return or to
\* the patch of localPath
ModuleCycle ==
  /\ patchRes.op = "none"
  /\ LET styleSheetId == sheets[1].styleSheetId
         localPath == LocalPath(sheets, styleSheetId)
         r == ModuleBranch(sheets, styleSheetId, changes, disk)
     IN /\ localPath = NoPath \/ Includes(localPath, "/.next/")
        /\ patchRes' = [op |-> "module", localPath |-> r.localPath,
                        resolved |-> r.resolved, next |-> r.next,
                        success |-> r.success, before |-> disk]
        /\ disk' = r.files
        /\ recentWrites' = ModuleWrites(recentWrites, styleSheetId, r.saved, newCss)
        /\ sheets' = IF r.next = "patch" THEN sheets
                     ELSE updateText(sheets, styleSheetId, newCss)
  /\ UNCHANGED <<changes, now, guardRet, queueVars, oldCss, newCss, diffPc,
                 temps, writers, loading, browser, edits, polling, cycles,
                 pollLog, lastAccepted, patched, lastEvent, clientVars>>

\* the module file: with the declaration the change is about, with another
\* declaration, without the rule, and not parseable
ModuleContents ==
  {Content(<<Rule(".item", <<FileDecl("color", "red", FALSE)>>, <<>>)>>),
   Content(<<Rule(".item", <<FileDecl("margin", "0", FALSE)>>, <<>>)>>),
   Content(<<Rule(".list", <<FileDecl("color", "red", FALSE)>>, <<>>)>>),
   BadContent}

InitSpecModule ==
  /\ queues = InitQueues
  /\ tasks = <<>>
  /\ recentWrites = InitRecentWrites
  /\ now = 0
  /\ guardRet = NoCall
  /\ oldCss = BtnRed
  /\ newCss = BtnBlue
  /\ diffPc = "ready"
  /\ changes \in TargetChanges
  /\ \E sourceURL \in {NoPath, "http://localhost:3000/_next/static/css/app/layout.css",
                       "http://localhost:3000/src/gone.css"} :
       sheets = <<[styleSheetId |-> "s2",
                   header |-> [styleSheetId |-> "s2", sourceURL |-> sourceURL,
                               isInline |-> FALSE],
                   text |-> BtnRed, lastModified |-> 0, viteDevId |-> NoPath,
                   originalSource |-> NoPath]>>
  /\ \E content \in ModuleContents :
       disk = [NoDisk EXCEPT !["/app/src/Menu.module.scss"] = content]
  /\ loading = {}
  /\ browser = InitBrowser
  /\ edits = 0
  /\ polling = "off"
  /\ cycles = <<>>
  /\ pollLog = NoLog
  /\ lastAccepted = InitAccepted
  /\ patched = InitPatched
  /\ lastEvent = NoEvent
  /\ temps = NoTemps
  /\ writers = NoWriters
  /\ patchRes = NoPatch
  /\ boot = NoBoot
  /\ cdp = NoClient
  /\ fresh = NoFresh

NextModule == ModuleCycle

SpecModule == InitSpecModule /\ [][NextModule]_vars
\* the declarations of a list that have the selector and property of decl
SameKey(decls, decl) ==
  SelectSeq(decls, LAMBDA d : d.selector = decl.selector /\ d.prop = decl.prop)

\* the place of decls[i] among the declarations of its selector and property
IndexInKey(decls, i) ==
  Cardinality({j \in 1..i : decls[j].selector = decls[i].selector
                              /\ decls[j].prop = decls[i].prop})

\* how many changes of the given types report the declaration decl
Reports(types, decl) ==
  Cardinality({c \in 1..Len(changes) :
                 /\ changes[c].type \in types
                 /\ changes[c].selector = decl.selector
                 /\ changes[c].prop = decl.prop
                 /\ changes[c].position = decl.start})

\* C9: differ completeness. With the declarations of each (selector,
\* property) aligned index by index, a new declaration is reported by exactly
\* one add or change when it has no old partner or differs from it in value
\* or importance, and by none otherwise; an old declaration without a new
\* partner is reported by exactly one delete, and one with a partner by none.
C9_Completeness ==
  (diffPc = "diffed" /\ oldCss.ok /\ newCss.ok) =>
    LET old == parseDeclarations(oldCss)
        new == parseDeclarations(newCss)
    IN /\ \A i \in 1..Len(new) :
            LET partners == SameKey(old, new[i])
                idx == IndexInKey(new, i)
                differs == IF idx > Len(partners) THEN TRUE
                           ELSE partners[idx].value # new[i].value
                                  \/ partners[idx].important # new[i].important
            IN Reports({"add", "change"}, new[i]) = IF differs THEN 1 ELSE 0
       /\ \A i \in 1..Len(old) :
            LET unmatched == IndexInKey(old, i) > Len(SameKey(new, old[i]))
            IN Reports({"delete"}, old[i]) = IF unmatched THEN 1 ELSE 0
       /\ \A c \in 1..Len(changes) :
            \/ \E i \in 1..Len(new) :
                 changes[c].type \in {"add", "change"}
                   /\ changes[c].position = new[i].start
            \/ \E i \in 1..Len(old) :
                 changes[c].type = "delete" /\ changes[c].position = old[i].start

\* C10: differ idempotence: the diff of a text against itself is empty.
C10_Idempotent == diffPc = "self" => changes = <<>>

\* the diff of a text against itself, for a text with two declarations of one
\* selector and property that differ in value
C10_Witness ==
  /\ diffPc = "self"
  /\ \E i, j \in 1..Len(oldCss.decls) :
       /\ i < j
       /\ DeclKey(oldCss.decls[i]) = DeclKey(oldCss.decls[j])
       /\ oldCss.decls[i].value # oldCss.decls[j].value

\* C3: shouldIgnore(key, content) returns true exactly when the key has a
\* record that is at most TTL old and whose hash is the hash of content; the
\* records of other keys do not matter.
C3_ShouldIgnoreIff ==
  [][\A k \in Keys, c \in Contents :
       ShouldIgnoreCall(k, c) =>
         (guardRet'.val <=>
            /\ k \in DOMAIN recentWrites
            /\ now - recentWrites[k].timestamp <= TTL
            /\ recentWrites[k].hash = computeHash(c))]_vars

\* shouldIgnore returned true for a record exactly TTL old, while another key
\* holds a record of another content
C3_Witness ==
  /\ guardRet.op = "shouldIgnore"
  /\ guardRet.val
  /\ guardRet.key \in DOMAIN recentWrites
  /\ now - recentWrites[guardRet.key].timestamp = TTL
  /\ \E k \in Keys :
       /\ k # guardRet.key
       /\ k \in DOMAIN recentWrites
       /\ recentWrites[k].hash # computeHash(guardRet.content)

\* C1: for tasks t1, t2 enqueued on the same path in that order, t2 has not
\* started unless t1 has settled; so at most one task per path is running.
C1_SerialPerPath ==
  /\ \A t1, t2 \in TaskIds :
       (t1 < t2 /\ tasks[t1].path = tasks[t2].path /\ Started(t2)) => Settled(t1)
  /\ \A p \in Paths :
       Cardinality({t \in TaskIds : tasks[t].path = p /\ tasks[t].st = "running"}) <= 1

\* a second task on a path runs after the first rejected, next to a running
\* task on the other path
C1_Witness ==
  \E t1, t2, t3 \in TaskIds :
    /\ t1 < t2 /\ tasks[t1].path = tasks[t2].path
    /\ tasks[t1].st = "rejected" /\ tasks[t2].st = "running"
    /\ tasks[t3].path # tasks[t1].path /\ tasks[t3].st = "running"

\* C8: poll callbacks never overlap: at most one is in flight.
C8_NoOverlap == Len(cycles) <= 1

\* C6: a styleSheetChanged event for a registered stylesheet whose live text
\* differs from the stored text ends in a call of handleStyleSheetChange.
C6_EventReachesDiffer == lastEvent.differed => lastEvent.invoked

\* C4: no patch task is ever enqueued for a path under .next/ or
\* node_modules/, and so none is ever written.
C4_OnlySources ==
  \A t \in TaskIds :
    /\ ~Includes(tasks[t].path, "/.next/")
    /\ ~Includes(tasks[t].path, "/node_modules/")

\* the handleStyleSheetChange calls for id that have not returned
Pending(id) ==
  {c \in CycleIds : cycles[c].pc \in {"module", "srcmap", "enqueue", "menqueue"}
                      /\ cycles[c].hc.id = id}

\* C5: once every handleStyleSheetChange call for an id has returned, the
\* stored text of the id is the newText of the call that started last.
C5_LastAccepted ==
  \A id \in StyleSheetIds :
    (Pending(id) = {} /\ lastAccepted[id] # NoText)
      => getPreviousText(sheets, id) = lastAccepted[id]

\* C7: a poll callback that gets the texts of the page while its copy of a
\* sheet holds the stored text, and the text of the page differs from it,
\* finds the text of the page when it looks at the sheet and hands it to
\* handleStyleSheetChange (or drops it as the agent's own write). A callback
\* that skips the sheet leaves the stored text as it was, so the callbacks
\* after it skip the sheet as well.
C7_PollDetects ==
  [][\A c \in CycleIds, id \in StyleSheetIds :
       (/\ PollFresh(c, TRUE)
        /\ pollLog'[id].outcome # "none"
        /\ Truthy(getPreviousText(sheets, id))
        /\ \E i \in 1..Len(cycles[c].sheets) :
             /\ cycles[c].sheets[i].styleSheetId = id
             /\ cycles[c].sheets[i].text = getPreviousText(sheets, id)
        /\ browser[id] # getPreviousText(sheets, id))
       => /\ pollLog'[id].outcome \in {"ignored", "unchanged", "diffed"}
          /\ pollLog'[id].text = browser[id]]_vars

\* a poll callback finds for id a text that differs from its copy
Notified(id, text) ==
  /\ pollLog'[id].outcome \in {"ignored", "unchanged", "diffed"}
  /\ pollLog'[id].text = text

\* C2 as stated: after a patch for id with text T has succeeded, a change of
\* id to T that is found within TTL of the patch does not reach the differ.
C2_DroppedAfterPatch ==
  [][\A p \in patched :
       (Notified(p.id, p.text) /\ now - p.at <= TTL)
         => pollLog'[p.id].outcome # "diffed"]_vars

\* C2 corrected: after a patch for id with text T has succeeded, a change of
\* id to T that is found within TTL of the patch is dropped by the loop
\* guard, before the differ is called and with no task enqueued, as long as
\* the guard still holds the record of that patch under sheet:<id>.
C2_DroppedWhileRegistered ==
  [][\A p \in patched :
       (/\ Notified(p.id, p.text)
        /\ now - p.at <= TTL
        /\ SheetKey(p.id) \in DOMAIN recentWrites
        /\ recentWrites[SheetKey(p.id)] =
             [hash |-> computeHash(p.text), timestamp |-> p.at])
       => /\ pollLog'[p.id].outcome = "ignored"
          /\ Len(tasks') <= Len(tasks)]_vars

\* a poll callback has just dropped, as the agent's own write, the text of a
\* patch that succeeded
C2_Witness ==
  \E p \in patched :
    /\ pollLog[p.id] = [outcome |-> "ignored", text |-> p.text]
    /\ now - p.at <= TTL


\* C11: every change the differ emits satisfies the invariant of its kind:
\* an add has no old value and a new value; a change has both values and
\* they differ; a delete has an old value, which ends in " !important" when
\* the old declaration was important, and no new value.
C11_KindInvariant ==
  (diffPc = "diffed" /\ oldCss.ok /\ newCss.ok) =>
    \A i \in 1..Len(changes) :
      LET c == changes[i]
      IN /\ c.type = "add" => (c.oldValue = NoValue /\ c.newValue # NoValue)
         /\ c.type = "change" =>
              (c.oldValue # NoValue /\ c.newValue # NoValue /\ c.oldValue # c.newValue)
         /\ c.type = "delete" =>
              /\ c.oldValue # NoValue
              /\ c.newValue = NoValue
              /\ oldCss.decls[c.position].important
                   => EndsWith(c.oldValue, " !important")

\* the patched file as it was before patchMultiple
FileBefore == patchRes.before[patchRes.filePath]

\* C12: when the changes from the text of a file to another text have been
\* applied to the file with patchMultiple, every one of them with success,
\* the differ finds no change from the patched file to that text.
C12_RoundTrip ==
  (patchRes.op = "diff" /\ FileBefore.exists /\ FileBefore.ok
     /\ ~patchRes.threw /\ patchRes.failed = 0) =>
    findChangedDeclarations(TextOf(disk[patchRes.filePath]), newCss) = <<>>

\* the rule at path belongs to the change: one of its flattened selectors is
\* the selector of the change
DirectTarget(rules, path, change) ==
  \E k \in 1..Len(Visits(rules, TRUE)) :
    /\ Visits(rules, TRUE)[k].path = path
    /\ matchSelector(Visits(rules, TRUE)[k].selector, change.selector)

\* rule by rule, the declarations that are not declarations of the change's
\* property directly in a rule that belongs to the change
OtherDecls(rules, change) ==
  [path \in {Visits(rules, TRUE)[k].path : k \in 1..Len(Visits(rules, TRUE))} |->
     IF DirectTarget(rules, path, change)
       THEN RemoveDecls(RuleAt(rules, path).decls, change.prop)
       ELSE RuleAt(rules, path).decls]

\* C13: SCSSPatcher.patchMultiple with one change (selector S, property P)
\* leaves every declaration that is not a declaration of P directly in a rule
\* whose flattened selector is S as it was, in value and in presence.
C13_Frame ==
  (patchRes.op = "any" /\ FileBefore.exists /\ FileBefore.ok
     /\ IsScss(patchRes.filePath)) =>
    OtherDecls(disk[patchRes.filePath].rules, changes[1])
      = OtherDecls(FileBefore.rules, changes[1])

\* no rule the patcher visits in the file has the selector of the change
NoRuleMatches(content, change, scss) ==
  \A k \in 1..Len(Visits(content.rules, scss)) :
    ~matchSelector(Visits(content.rules, scss)[k].selector, change.selector)

\* C14: after patchMultiple(filePath, changes), success + failed is the number
\* of changes; a change whose selector matches no rule of the file is counted
\* as failed; writeFile is called exactly when a change succeeded; and when
\* none succeeded or the file is missing, success is 0, failed is the number
\* of changes and every file is as it was.
C14_Counts ==
  patchRes.op # "none" =>
    /\ patchRes.success + patchRes.failed = Len(changes)
    /\ (patchRes.op = "any" /\ FileBefore.exists /\ FileBefore.ok
          /\ NoRuleMatches(FileBefore, changes[1], IsScss(patchRes.filePath))) =>
         (patchRes.failed = 1 /\ ~patchRes.wrote)
    /\ patchRes.wrote <=> (patchRes.success > 0 \/ patchRes.threw)
    /\ ~FileBefore.exists =>
         (patchRes.success = 0 /\ patchRes.failed = Len(changes) /\ ~patchRes.wrote)
    /\ ~patchRes.wrote => (patchRes.success = 0 /\ disk = patchRes.before)

\* a change for a selector the file has no rule for has failed, beside a
\* rule of another selector, and nothing was written
C14_Witness ==
  /\ patchRes.op = "any"
  /\ FileBefore.exists /\ FileBefore.ok /\ Len(FileBefore.rules) > 0
  /\ NoRuleMatches(FileBefore, changes[1], IsScss(patchRes.filePath))
  /\ patchRes.success = 0 /\ patchRes.failed = 1
  /\ disk = patchRes.before

\* C15: at every instant each patched file holds either its complete content
\* from before the patch or the complete content its own patch writes.
C15_Atomic ==
  \A p \in PatchPaths :
    \/ disk[p] = WriteBefore(p)
    \/ writers[p].pc # "idle" /\ disk[p] = writers[p].content

\* C19: a shouldIgnoreStyleSheet check of the patched text of a stylesheet,
\* made when the patch of its file is already in the file, answers true.
C19_CheckAfterVisible ==
  [][\A p \in PatchPaths :
       (/\ writers[p].pc \in {"renamed", "done"}
        /\ disk[p] = writers[p].content
        /\ ShouldIgnoreCall(SheetKey(SheetOf(p)), TextOf(writers[p].content)))
         => guardRet'.val]_vars

\* C16: when the old or the new text does not parse, findChangedDeclarations
\* emits no change.
C16_NoChangeOnParseFailure ==
  (diffPc = "diffed" /\ (~oldCss.ok \/ ~newCss.ok)) => changes = <<>>

\* C17: after a handleStyleSheetChange call in which the differ was given a
\* text that does not parse, or the patcher a file that does not parse, the
\* registry still holds the text it held before the call.
C17_RegistryKept ==
  (/\ patchRes.op = "cycle"
   /\ \/ patchRes.differ /\ (~oldCss.ok \/ ~newCss.ok)
      \/ patchRes.patcher /\ FileBefore.exists /\ ~FileBefore.ok) =>
    getPreviousText(sheets, sheets[1].styleSheetId) = oldCss

\* C18: a task whose predecessor on the path has settled, by rejecting as
\* well as by fulfilling, is free to be called; tasks of a path are called in
\* the order of their enqueue calls; and an enqueue call returns only once
\* its own task has settled, with that task's outcome.
C18_FailureIsolation ==
  /\ \A t \in TaskIds :
       (tasks[t].st = "waiting" /\ tasks[t].prev # NoTask /\ Settled(tasks[t].prev))
         => ThenReady(t)
  /\ \A t1, t2 \in TaskIds :
       (t1 < t2 /\ tasks[t1].path = tasks[t2].path /\ Started(t2)) => Started(t1)
  /\ \A t \in TaskIds : tasks[t].returned => Settled(t)

\* a task rejected and its enqueue call returned; the task chained to it ran
\* to fulfilment and its enqueue call returned too
C18_Witness ==
  \E t1, t2 \in TaskIds :
    /\ tasks[t2].prev = t1
    /\ tasks[t1].st = "rejected" /\ tasks[t1].returned
    /\ tasks[t2].st = "fulfilled" /\ tasks[t2].returned

\* C20: a handleStyleSheetChange call whose patch reports a successful change
\* leaves the hash of the new text, stamped now, under the path of the file
\* and under sheet:<id>; a call whose patch reports none, or that runs no
\* patch, leaves every record of the loop guard as it was.
C20_RegisterIffSuccess ==
  [][(patchRes.op = "none" /\ patchRes'.op = "cycle") =>
       IF patchRes'.success > 0
         THEN /\ patchRes'.filePath \in DOMAIN recentWrites'
              /\ SheetKey(sheets[1].styleSheetId) \in DOMAIN recentWrites'
              /\ recentWrites'[patchRes'.filePath] =
                   [hash |-> computeHash(newCss'), timestamp |-> now]
              /\ recentWrites'[SheetKey(sheets[1].styleSheetId)] =
                   [hash |-> computeHash(newCss'), timestamp |-> now]
         ELSE recentWrites' = recentWrites]_vars

\* a patch with a successful change has left the hash of the new text under
\* the path and under sheet:<id>
C20_Witness ==
  /\ patchRes.op = "cycle"
  /\ patchRes.success > 0
  /\ patchRes.filePath \in DOMAIN recentWrites
  /\ recentWrites[patchRes.filePath].hash = computeHash(newCss)
  /\ recentWrites[patchRes.filePath].timestamp = 1
  /\ recentWrites[SheetKey(sheets[1].styleSheetId)].hash = computeHash(newCss)

Preferred(sheet) ==
  LET sources == <<sheet.viteDevId, sheet.originalSource, resolve(sheet.header.sourceURL)>>
      set == {i \in 1..3 : sources[i] # NoPath}
  IN IF set = {} THEN NoPath ELSE sources[CHOOSE i \in set : \A j \in set : i <= j]

\* C22 as stated: every file that a handleStyleSheetChange call patches is
\* the first of viteDevId, originalSource and the URL resolver's answer that
\* is set.
C22_TargetIsPreferred ==
  patchRes.op = "target" =>
    \A i \in 1..Len(patchRes.targets) : patchRes.targets[i] = Preferred(sheets[1])

\* C22: the path a handleStyleSheetChange call starts from is the first of
\* viteDevId, originalSource and the URL resolver's answer that is set; the
\* call patches that path, or the Sass or Less source that the source map
\* names for it when it is not Sass itself, or, only when it is unset or under
\* /.next/, the module files that the selectors of the changes resolve to;
\* with no path and no module file nothing is patched.
C22_PreferenceOrder ==
  patchRes.op = "target" =>
    /\ patchRes.localPath = Preferred(sheets[1])
    /\ patchRes.via = "path" =>
         patchRes.targets = <<Preferred(sheets[1])>>
    /\ patchRes.via = "sourcemap" =>
         /\ ~IsScss(Preferred(sheets[1])) /\ Len(patchRes.targets) = 1
         /\ patchRes.targets[1] \in TargetSources \ {NoPath}
         /\ IsScss(patchRes.targets[1]) \/ EndsWith(patchRes.targets[1], ".less")
    /\ patchRes.via = "module" =>
         /\ Preferred(sheets[1]) = NoPath \/ Includes(Preferred(sheets[1]), "/.next/")
         /\ patchRes.targets # <<>>
         /\ \A i \in 1..Len(patchRes.targets) :
              \E j \in 1..Len(changes) :
                selectorResolve(changes[j].selector).filePath = patchRes.targets[i]
    /\ patchRes.via = "unmapped" =>
         Preferred(sheets[1]) = NoPath /\ patchRes.targets = <<>>

\* a stylesheet with viteDevId and originalSource both set, patched at its
\* viteDevId
C22_Witness ==
  /\ patchRes.op = "target" /\ patchRes.via = "path"
  /\ sheets[1].viteDevId # NoPath /\ sheets[1].originalSource # NoPath
  /\ sheets[1].originalSource # sheets[1].viteDevId
  /\ sheets[1].header.sourceURL # NoPath
  /\ patchRes.targets = <<sheets[1].viteDevId>>

\* C23: after register(header) for an id that was present, the registry is
\* what it was before the call, with the entry's header, text, lastModified,
\* viteDevId and originalSource, and the call has returned that entry; and
\* after any sequence of calls no two entries of the registry have the same id.
C23_RegisterIdempotent ==
  /\ (patchRes.op = "register" /\ SheetIndex(patchRes.before, patchRes.styleSheetId) # 0) =>
       /\ sheets = patchRes.before
       /\ patchRes.ret = patchRes.before[SheetIndex(patchRes.before, patchRes.styleSheetId)]
  /\ \A i, j \in 1..Len(sheets) : sheets[i].styleSheetId = sheets[j].styleSheetId => i = j

\* a second register of an id under another URL, for an entry whose text,
\* lastModified, viteDevId and originalSource are all set
C23_Witness ==
  /\ patchRes.op = "register"
  /\ SheetIndex(patchRes.before, patchRes.styleSheetId) # 0
  /\ Len(sheets) = 2
  /\ LET sheet == patchRes.before[SheetIndex(patchRes.before, patchRes.styleSheetId)]
     IN /\ sheet.text # NoText /\ sheet.lastModified > 0
        /\ sheet.viteDevId # NoPath /\ sheet.originalSource # NoPath
        /\ sheet.header.sourceURL = "http://localhost:3000/src/other.css"
        /\ patchRes.ret.header.sourceURL = "http://localhost:3000/src/other.css"

\* C24: on a page whose stylesheets never return to an earlier text, every
\* step that replaces the stored text of a stylesheet by another text of that
\* stylesheet stores a text that the page produced later than the one it
\* replaces.
C24_Monotonic ==
  [][\A id \in StyleSheetIds :
       (/\ getPreviousText(sheets', id) # getPreviousText(sheets, id)
        /\ Produced(id, getPreviousText(sheets, id)) > 0
        /\ Produced(id, getPreviousText(sheets', id)) > 0)
         => Produced(id, getPreviousText(sheets', id))
              > Produced(id, getPreviousText(sheets, id))]_vars

\* C25: when a poll callback, with the texts of a page that has dropped a
\* stylesheet, looks at the entry of that stylesheet, the entry is removed
\* from the registry.
C25_VanishedRemoved ==
  [][\A c \in CycleIds, id \in StyleSheetIds :
       (/\ PollFresh(c, TRUE)
        /\ pollLog'[id].outcome # "none"
        /\ browser[id] = NoText
        /\ SheetIndex(sheets, id) # 0)
       => SheetIndex(sheets', id) = 0]_vars

\* C26: once the shutdown signal has cleared the poll timer no poll callback
\* starts, and when the process exits no patch task of the file queue is
\* waiting or running.
C26_DrainedBeforeExit ==
  [][/\ polling \in {"cleared", "exited"} => Len(cycles') <= Len(cycles)
     /\ polling' = "exited" =>
          \A t \in 1..Len(tasks') : tasks'[t].st \notin {"waiting", "running"}]_vars

\* C27: what urlResolver.resolve(url) returns is null or a path that exists.
C27_ResolvedExists ==
  patchRes.op = "resolve" => (patchRes.ret = NoPath \/ existsSync(patchRes.ret))

\* how often a callback is among the entries of a list
RECURSIVE Times(_, _)
Times(entries, callback) ==
  IF entries = <<>> THEN 0
  ELSE (IF entries[1].callback = callback THEN 1 ELSE 0) + Times(Tail(entries), callback)

\* C29: once connect has a session, so from before the first enable on, the
\* pending list is empty and every callback registered so far, before connect
\* or after it, is attached to the CSS domain exactly once; until then every
\* registered callback is pending exactly once and none is attached; and the
\* domains are enabled in the order DOM, CSS, Page.
C29_AttachedBeforeEnable ==
  /\ cdp.CSS =>
       /\ cdp.pendingCallbacks = <<>>
       /\ \A callback \in patchRes.registered : Times(cdp.attached, callback) = 1
  /\ ~cdp.CSS =>
       /\ cdp.attached = <<>> /\ cdp.enabled = <<>>
       /\ \A callback \in patchRes.registered : Times(cdp.pendingCallbacks, callback) = 1
  /\ CallbacksOf(cdp.attached) \cup CallbacksOf(cdp.pendingCallbacks) = patchRes.registered
  /\ cdp.enabled = SubSeq(<<"DOM", "CSS", "Page">>, 1, Len(cdp.enabled))
  /\ cdp.pc = "connected" => cdp.enabled = <<"DOM", "CSS", "Page">>

\* connect has returned with two callbacks that were registered before it
\* and one that was registered after it, all attached
C29_Witness ==
  /\ cdp.pc = "connected"
  /\ Len(cdp.attached) = 3
  /\ cdp.attached[1].event = "styleSheetAdded"
  /\ cdp.attached[2].event = "styleSheetChanged"
  /\ patchRes.registered = CallbackIds

\* the steps of a start() that gets through, in their order
StartSteps ==
  <<"subscribe", "connect", "connected", "clear", "reload", "wait", "detectVite",
    "detectWebpack", "startPolling">>

\* C28: the steps start() has taken are always the first steps of: handlers
\* subscribed, connect called, connect succeeded, registry cleared, page
\* reloaded, wait, detectViteStyleSheets, detectWebpackStyleSheets, polling
\* started, possibly ended by the exit of the process; from the call of
\* connect on both handlers are with the client; polling runs only after all
\* the steps; and after a connect that failed start() takes no step but the
\* exit.
C28_StartupOrder ==
  /\ \E n \in 0..Len(StartSteps) :
       \/ boot.steps = SubSeq(StartSteps, 1, n)
       \/ boot.steps = SubSeq(StartSteps, 1, n) \o <<"exit">>
  /\ cdp.pc # "new" =>
       {AddedHandler, ChangedHandler}
         \subseteq CallbacksOf(cdp.attached) \cup CallbacksOf(cdp.pendingCallbacks)
  /\ polling = "on" <=> boot.steps = StartSteps
  /\ Len(boot.steps) > 2 /\ boot.steps[3] = "connected" => cdp.pc = "connected"
  /\ cdp.pc = "failed" =>
       /\ boot.steps \in {<<"subscribe", "connect">>, <<"subscribe", "connect", "exit">>}
       /\ polling = "off"

\* start() got through: polling runs, with a stylesheet that
\* detectViteStyleSheets has mapped
C28_Witness ==
  /\ polling = "on" /\ boot.pc = "started" /\ boot.steps = StartSteps
  /\ getViteDevId(sheets, "s1") # NoPath
  /\ getOriginalSource(sheets, "s2") # NoPath

\* the stylesheets of a list of result entries, in their order
RECURSIVE ResultIds(_)
ResultIds(results) ==
  IF results = <<>> THEN <<>>
  ELSE <<results[1].styleSheetId>> \o ResultIds(Tail(results))

\* the members of a sequence
Members(seq) == {seq[i] : i \in 1..Len(seq)}

\* C30: getAllFreshStyleSheets always ends by returning a list. After an
\* error of CDP.List, CDP(...), DOM.enable, CSS.enable or close, and when the
\* page is not among the targets, the list is empty; otherwise it holds, in
\* the order of the headers, an entry with its content key for every header
\* collected except those whose fetch failed. When it returns after having
\* opened the session, close() has been called on the session and has
\* settled: once in the try block, and once more in the catch block if and
\* only if an error was caught; before that, and without a session, close()
\* is not called.
C30_NeverFailsAndCloses ==
  /\ fresh.pc \in {"idle", "list", "open", "DOM", "CSS", "wait", "texts", "close",
                   "catchClose", "returned"}
  /\ fresh.pc = "returned" =>
       /\ fresh.error # "none" => fresh.ret = <<>>
       /\ ~fresh.client => fresh.ret = <<>> /\ fresh.closes = <<>>
       /\ fresh.client /\ fresh.error = "none" =>
            /\ fresh.ret = fresh.results
            /\ fresh.closes = <<TRUE>>
            /\ fresh.at = Len(fresh.freshSheets)
            /\ Members(ResultIds(fresh.ret)) = Members(fresh.freshSheets) \ Members(fresh.skipped)
            /\ Len(fresh.ret) + Len(fresh.skipped) = Len(fresh.freshSheets)
            /\ \A i, j \in 1..Len(fresh.ret) :
                 i < j => \E k, l \in 1..Len(fresh.freshSheets) :
                            /\ k < l
                            /\ fresh.freshSheets[k] = fresh.ret[i].styleSheetId
                            /\ fresh.freshSheets[l] = fresh.ret[j].styleSheetId
            /\ \A i \in 1..Len(fresh.ret) :
                 /\ fresh.ret[i].text # NoText
                 /\ fresh.ret[i].contentKey = contentKey(fresh.ret[i].text)
       /\ fresh.client /\ fresh.error # "none" =>
            /\ Len(fresh.closes) \in 1..2
            /\ Len(fresh.closes) = 2 <=> fresh.error = "close"
            /\ Len(fresh.closes) = 2 => ~fresh.closes[1]
  /\ fresh.pc \notin {"returned", "catchClose"} =>
       fresh.closes = <<>> /\ fresh.error = "none"
  /\ fresh.pc = "catchClose" =>
       /\ fresh.client
       /\ fresh.closes = IF fresh.error = "close" THEN <<FALSE>> ELSE <<>>

\* getAllFreshStyleSheets has returned [] after the close() of the try block
\* failed and the close() of the catch block succeeded, on a session on which
\* one fetch had succeeded and one had failed
C30_Witness ==
  /\ fresh.pc = "returned"
  /\ fresh.error = "close"
  /\ fresh.closes = <<FALSE, TRUE>>
  /\ Len(fresh.results) = 1
  /\ Len(fresh.skipped) = 1
  /\ fresh.ret = <<>>

\* the last task enqueued on a path, or NoTask
LastOn(path) ==
  LET on == {t \in TaskIds : tasks[t].path = path}
  IN IF on = {} THEN NoTask ELSE CHOOSE t \in on : \A u \in on : u <= t

\* C31: while some task enqueued on a path has not settled, the path has an
\* entry; the entry of a path is always the promise of the last task enqueued
\* on it, and it is there exactly until the enqueue call of that task, resumed
\* by the settling of the task, has run its finally block; the finally block
\* of an earlier task leaves the entry alone.
C31_EntryWhilePending ==
  /\ \A p \in Paths :
       /\ (\E t \in TaskIds : tasks[t].path = p /\ ~Settled(t)) => queues[p] # NoTask
       /\ queues[p] # NoTask <=> (LastOn(p) # NoTask /\ ~tasks[LastOn(p)].returned)
       /\ queues[p] # NoTask => queues[p] = LastOn(p)
  /\ \A t \in TaskIds : tasks[t].returned => Settled(t)

\* on one path the first task has settled and its enqueue call has returned
\* while the second is still waiting or running, and the entry is the second;
\* on the other path the only task has settled, its call has returned and the
\* entry is gone
C31_Witness ==
  \E t1, t2, t3 \in TaskIds :
    /\ tasks[t2].prev = t1 /\ tasks[t1].returned /\ ~Settled(t2)
    /\ queues[tasks[t2].path] = t2
    /\ tasks[t3].path # tasks[t1].path /\ tasks[t3].returned
    /\ queues[tasks[t3].path] = NoTask

\* the age a record had when the last call of the guard was made
Age(record) == guardRet.at - record.timestamp

\* the keys of the records that were within the TTL when the last call of the
\* guard was made
Fresh == {k \in DOMAIN guardRet.before : Age(guardRet.before[k]) <= TTL}

\* C32: a shouldIgnore call on a key whose record is older than the TTL
\* returns false and leaves the guard without that record; after a sweep the
\* guard holds no record older than the TTL; after either of them the guard
\* holds every record that was within the TTL, unaltered, and no record it
\* did not hold; and after destroy it holds none.
C32_Expiry ==
  /\ guardRet.op = "shouldIgnore" =>
       /\ (guardRet.key \in DOMAIN guardRet.before
             /\ Age(guardRet.before[guardRet.key]) > TTL) =>
            (~guardRet.val /\ guardRet.key \notin DOMAIN recentWrites)
       /\ DOMAIN recentWrites = DOMAIN guardRet.before
            \ (IF guardRet.key \in Fresh THEN {} ELSE {guardRet.key})
       /\ \A k \in DOMAIN recentWrites : recentWrites[k] = guardRet.before[k]
  /\ guardRet.op = "cleanup" =>
       /\ DOMAIN recentWrites = Fresh
       /\ \A k \in Fresh : recentWrites[k] = guardRet.before[k]
  /\ guardRet.op = "destroy" => DOMAIN recentWrites = {}

\* a shouldIgnore call has found a record older than the TTL under its key
\* and one of exactly the age of the TTL under the other key
C32_Witness ==
  /\ guardRet.op = "shouldIgnore"
  /\ guardRet.key \in DOMAIN guardRet.before
  /\ Age(guardRet.before[guardRet.key]) > TTL
  /\ \E k \in DOMAIN guardRet.before : Age(guardRet.before[k]) = TTL

\* C33: a handleStyleSheetChange call that goes through handleCSSModuleChanges
\* returns after it exactly when a module file was patched with at least one
\* successful change; otherwise it goes on to patch localPath, or logs the
\* stylesheet as unmapped.
C33_EndsOnlyIfPatched ==
  patchRes.op = "module" => (patchRes.next = "return" <=> patchRes.success > 0)

\* the flattened selector of a declaration of a text
Flattened(decl) == FullSelectorOf("", decl.ancestors \o <<decl.selector>>)

\* C34: two declarations of the same property whose innermost rules have the
\* same selector but whose flattened selectors differ have different keys in
\* the differ, and every change the differ reports carries the values of an
\* old and a new declaration with the same flattened selector.
C34_FlattenedKeys ==
  diffPc = "diffed" =>
    /\ \A i \in 1..Len(oldCss.decls), j \in 1..Len(newCss.decls) :
         (/\ oldCss.decls[i].prop = newCss.decls[j].prop
          /\ oldCss.decls[i].selector = newCss.decls[j].selector
          /\ Flattened(oldCss.decls[i]) # Flattened(newCss.decls[j]))
           => DeclKey(parseDeclarations(oldCss)[i]) # DeclKey(parseDeclarations(newCss)[j])
    /\ \A c \in 1..Len(changes) :
         changes[c].type = "change" =>
           \E i \in 1..Len(oldCss.decls), j \in 1..Len(newCss.decls) :
             /\ Flattened(oldCss.decls[i]) = Flattened(newCss.decls[j])
             /\ oldCss.decls[i].prop = changes[c].prop
             /\ newCss.decls[j].prop = changes[c].prop
             /\ WithImportant(oldCss.decls[i]) = changes[c].oldValue
             /\ WithImportant(newCss.decls[j]) = changes[c].newValue

\* writeFile of the patch of filePath has been called and has not returned
InFlight(filePath) == writers[filePath].pc \in {"open", "writing", "rename"}

\* C35: two writeFile calls that are in flight together for two files use
\* different temporary files; and once no call is in flight, each file whose
\* writeFile call has returned holds the content handed to that call.
C35_DistinctTemps ==
  /\ \A p, q \in PatchPaths :
       (p # q /\ InFlight(p) /\ InFlight(q)) => writers[p].tempPath # writers[q].tempPath
  /\ (\A p \in PatchPaths : ~InFlight(p)) =>
       \A p \in PatchPaths :
         writers[p].pc \in {"renamed", "done"} => disk[p] = writers[p].content

\* the rule of the selector in the content has the declaration prop: value
Holds(content, selector, prop, value) ==
  \E i \in 1..Len(content.rules) :
    /\ content.rules[i].selector = selector
    /\ \E j \in 1..Len(content.rules[i].decls) :
         /\ content.rules[i].decls[j].prop = prop
         /\ content.rules[i].decls[j].value = value

\* the file of the task's path holds the new value of every change of a
\* task whose changes patchMultiple counted as successful
Kept(t) ==
  tasks[t].body.success = Len(tasks[t].body.changes) =>
    \A i \in 1..Len(tasks[t].body.changes) :
      Holds(disk[tasks[t].path], tasks[t].body.changes[i].selector,
            tasks[t].body.changes[i].prop, tasks[t].body.changes[i].newValue)

\* C36: a patch task reads its file only after every task enqueued before
\* it on the same path has settled; and when two patch tasks have patched
\* different declarations of the same file, then once every patch task has
\* settled the file holds the successful changes of both.
C36_NoLostUpdate ==
  \A t1, t2 \in TaskIds :
    (t1 < t2 /\ tasks[t1].path = tasks[t2].path) =>
      /\ tasks[t2].body.pc # "readFile" => Settled(t1)
      /\ (\A t \in TaskIds : Settled(t)) => (Kept(t1) /\ Kept(t2))

\* C37: the new text a pass of the poll loop chose for a tracked sheet is a
\* text of the stylesheet of the page that the sheet stands for, also when
\* the stylesheets of the page have the same leading 100 characters.
C37_OwnFreshText ==
  \A id \in StyleSheetIds :
    pollLog[id].text # NoText => pollLog[id].text \in TwinTexts(id)

\* C38: updateText, setViteDevId and setOriginalSource called with an id
\* that has no record, and the styleSheetAdded handler whose text arrives
\* when the record of its stylesheet is gone, leave the registry as they
\* found it.
C38_NoResurrect ==
  (/\ patchRes.op \in {"updateText", "setViteDevId", "setOriginalSource", "loaded"}
   /\ SheetIndex(patchRes.before, patchRes.styleSheetId) = 0)
    => sheets = patchRes.before

\* the text of a stylesheet has arrived at its handler after the record was
\* cleared or removed, other records being there
C38_Witness ==
  /\ patchRes.op = "loaded"
  /\ patchRes.loaded
  /\ SheetIndex(patchRes.before, patchRes.styleSheetId) = 0
  /\ patchRes.before # <<>>
  /\ sheets = patchRes.before

====
